---- MODULE Spec2Model ----
(***************************************************************************)
(* A model of the ITEC court-booking extension (adielbm/raycast-itec):     *)
(*   - the Session Manager         src/src/services/auth.ts                *)
(*   - the hour-list Slot Cache    src/src/services/api.ts                 *)
(*   - the Availability Scanner    src/src/view-courts.tsx (fetchCourts)   *)
(*   - the Booking Automation      src/src/services/puppeteer.ts and       *)
(*                                 src/src/view-courts.tsx (handleBookCourt)*)
(* Every async function is cut at its awaits: one action per piece of code *)
(* that runs between two suspension points.  Answers of the portal, of the *)
(* browser and of the user are chosen with \E.                             *)
(* LocalStorage, Cache and showToast are taken not to throw.                *)
(***************************************************************************)
EXTENDS Integers, Sequences, FiniteSets, TLC

(***************************************************************************)
(* Bounds of the model.                                                    *)
(***************************************************************************)
\* concurrent callers of getAuthTokens / refreshAuthTokens
NCallers == 2
\* calls of getAuthTokens / refreshAuthTokens started in one behaviour
MaxCalls == 3
\* booking requests (handleBookCourt invocations) in one behaviour
NRequests == 2
\* longest text of the confirmation step, in phrases
MaxTextLen == 3
\* runs of the CourtsForDate effect (scans) in one behaviour
NScans == 2
\* longest candidate list of a scan
NSlots == 3
\* concurrent callers of fetchTimeSlots
NFetchers == 2
\* calls of fetchTimeSlots started in one behaviour
MaxFetches == 3
\* clears of the Cache in one behaviour
MaxClears == 1
\* tennis centers (unitId)
NUnits == 2

VARIABLES
    \* ---- Session Manager (auth.ts) ----
    callers,      \* the callers that take part in this behaviour
    lsToken,      \* LocalStorage item "itec_auth_token"
    lsSession,    \* LocalStorage item "itec_session_id"
    apc,          \* per caller: the await it is suspended at
    rdToken,      \* per caller: `token` of getStoredTokens
    tokens,       \* per caller: `tokens` of getAuthTokens
    loginToken,   \* per caller: `authenticityToken` of performLogin
    loginSession, \* per caller: `sessionId` of performLogin
    nextLogin,    \* the identity the portal gives to the next login attempt
    calls,        \* calls started so far
    aKind,        \* per caller: the entry point of the current call
    aStale,       \* per caller: the pair getStoredTokens returned to this call
    aProbe,       \* per caller: the status the validity probe answered
    aLogins,      \* per caller: performLogin runs of this call
    aLoginPair,   \* per caller: the pair performLogin returned to this call
    aRet,         \* per caller: what the call returned
    aPrev,        \* per caller: the stored items when the call was entered
    aFail,        \* per caller: the failure performLogin logged, if any
    creds,        \* the credential pairs of the preferences in this behaviour
    aCred,        \* per caller: `credentials` of the current call
    loginCred,    \* per login: the credentials it was made with
    \* ---- Booking (view-courts.tsx handleBookCourt, puppeteer.ts) ----
    isBooking,    \* the React state `isBooking` of CourtsList
    bpc,          \* per request: the await the request is suspended at
    browserVar,   \* per request: `browser` of bookCourtAutomatically is not null
    launched,     \* per request: puppeteer.launch answered a browser
    closed,       \* per request: browser.close() was called
    steps,        \* per request: the wizard steps run so far, with their outcome
    bResult,      \* per request: the value of the return statement of the run
    \* ---- verifyStep4 on its own ----
    vPage,        \* the page verifyStep4 looks at
    vResult,      \* what verifyStep4 returned for it
    \* ---- Availability Scanner (view-courts.tsx CourtsForDate) ----
    results,      \* the React state `results`
    isLoading,    \* the React state `isLoading`
    spc,          \* per scan: the await fetchCourts is suspended at
    isCancelled,  \* per scan: `isCancelled` of the effect
    slots,        \* per scan: `slots`, the candidate start times
    batchStart,   \* per scan: `batchStart`, 0-based
    inflight,     \* per scan: indices whose searchCourts has not answered
    batchResults, \* per scan: the answers of the current batch, by index
    allSuggestedTimes, \* per scan: `allSuggestedTimes`, in insertion order
    newTimesToFetch,   \* per scan: `newTimesToFetch`
    sugIndex,     \* per scan: position of the suggested-time loop
    issued,       \* per scan: indices of `slots` probed so far
    merged,       \* per scan: indices whose answer was written to `results`
    probed,       \* per scan: the start times probed, in order of issue
    probedAfterCancel, \* per scan: a probe was issued with isCancelled set
    wroteAfterCancel,  \* per scan: setResults/setIsLoading ran with it set
    answerOf,     \* per scan: what searchCourts answered, by index of `slots`
    outOfOrder,   \* per scan: a probe answered before one of a lower index
    authFailed,   \* per scan: getAuthTokens returned null to a call of the scan
    scanOutcome,  \* per scan: "loaded" once the "Courts loaded" toast is shown
    sugInflight,  \* per scan: the suggested times whose searchCourts call has
                  \* not answered yet
    \* ---- Slot Cache (api.ts fetchTimeSlots) ----
    timeSlotsCache, \* the entries of `timeSlotsCache`, by cacheKey
    fpc,          \* per caller: the await fetchTimeSlots is suspended at
    fUnit,        \* per caller: `unitId`
    fDate,        \* per caller: `date`, as a day number
    fTokens,      \* per caller: `tokens`
    fRet,         \* per caller: what the call returned
    fetches,      \* calls started so far
    clears,       \* clears of the Cache so far
    hoursRequests, \* per cacheKey: requests to the hours endpoint since the
                  \* last clear
    answered,     \* per cacheKey: a 2xx answer was read since the last clear
    fAfterAnswer, \* per caller: `answered` of its key when the call started
    fRequested,   \* per caller: the call sent a request to the hours endpoint
    lastAnswer,   \* per unit and weekday: the list of the last 2xx answer since
                  \* the last clear
    fSeen,        \* per caller: lastAnswer for its unit and weekday at its start
    fOutcome,     \* per caller: how the call ended: "hit", "noTokens",
                  \* "failed" (status, fetch or text threw) or "2xx"
    \* ---- the consolidation of fetchCourts on its own ----
    cIn,          \* the list the last setResults update is given
    cOut,         \* the list it returned
    cDone,        \* it has run
    cAgain,       \* the list it returned when given cOut
    cTwice,       \* it has run on cOut
    \* ---- parseCourtAvailability on its own (utils/date.ts) ----
    pIn,          \* the response text
    pOut,         \* the CourtAvailability returned for it
    pDone,        \* parseCourtAvailability has run
    pNoCourts,    \* what isNoCourtsAvailable returned in that run
    \* ---- the half-hour filters on their own (api.ts, utils/date.ts) ----
    tIn,          \* the HH:MM values given to the filter
    tNow,         \* whether the date is today, and the current hour
    tParsed,      \* what parseTimeSlots returned for tIn
    tSlots,       \* what generateTimeSlotsForDate returned for tIn
    tDone,        \* which of the two functions have run
    \* ---- extractHtmlFromResponse on the text of a response ----
    eIn,          \* the literal html fragment the portal escapes and injects
    eOut,         \* what extractHtmlFromResponse returned for that response
    eDone,        \* extractHtmlFromResponse has run
    \* ---- the operations that talk to the portal with the session ----
    opc,          \* per operation slot: where the running operation is
    oKind,        \* per slot: which operation runs
    oHit,         \* per slot: fetchTimeSlots found its key in the cache
    oAuthCalls,   \* per slot: getAuthTokens calls of the operation
    oTokens,      \* per slot: what getAuthTokens returned to it
    oSent,        \* per slot: the _session_id values the operation has sent
    ops,          \* operations started so far
    \* ---- fillStep1 and selectCourtInStep2 on the page they find ----
    wParams,      \* BookingParams: startHour and courtId
    wpc,          \* the step bookCourtAutomatically is at
    wSeen1,       \* what fillStep1 found on the page
    wHour,        \* the value fillStep1 gave to #search_start_hour
    wDid,         \* what fillStep1 did to the search form, in order
    wSeen2,       \* what selectCourtInStep2 found on the page
    wClicked      \* the position of the link selectCourtInStep2 clicked, or 0

authVars == <<callers, creds, aCred, loginCred, lsToken, lsSession, apc, rdToken, tokens, loginToken,
              loginSession, nextLogin, calls, aKind, aStale, aProbe, aLogins,
              aLoginPair, aRet, aPrev, aFail>>

bookVars == <<isBooking, bpc, browserVar, launched, closed, steps, bResult>>

verifyVars == <<vPage, vResult>>

scanVars == <<results, isLoading, spc, isCancelled, slots, batchStart, inflight,
              batchResults, allSuggestedTimes, newTimesToFetch, sugIndex, issued,
              merged, probed, probedAfterCancel, wroteAfterCancel, answerOf,
              outOfOrder, authFailed, scanOutcome, sugInflight>>

cacheVars == <<timeSlotsCache, fpc, fUnit, fDate, fTokens, fRet, fetches, clears,
               hoursRequests, answered, fAfterAnswer, fRequested, lastAnswer,
               fSeen, fOutcome>>

pureVars == <<cIn, cOut, cDone, cAgain, cTwice, pIn, pOut, pDone, pNoCourts>>

filterVars == <<tIn, tNow, tParsed, tSlots, tDone>>

\* The variables of the functions checked on their own.
extractVars == <<eIn, eOut, eDone>>
apiVars == <<opc, oKind, oHit, oAuthCalls, oTokens, oSent, ops>>
wizardVars == <<wParams, wpc, wSeen1, wHour, wDid, wSeen2, wClicked>>
moreVars == <<filterVars, extractVars, apiVars, wizardVars>>

vars == <<authVars, bookVars, verifyVars, scanVars, cacheVars, pureVars, moreVars>>

\* What the actions of one component leave alone.
notAuth == <<bookVars, verifyVars, scanVars, cacheVars, pureVars, moreVars>>
notBook == <<authVars, verifyVars, scanVars, cacheVars, pureVars, moreVars>>
notVerify == <<authVars, bookVars, scanVars, cacheVars, pureVars, moreVars>>
notScan == <<authVars, bookVars, verifyVars, cacheVars, pureVars, moreVars>>
notCache == <<authVars, bookVars, verifyVars, scanVars, pureVars, moreVars>>
notPure == <<authVars, bookVars, verifyVars, scanVars, cacheVars, moreVars>>
notFilter == <<authVars, bookVars, verifyVars, scanVars, cacheVars, pureVars,
               extractVars, apiVars, wizardVars>>
notExtract == <<authVars, bookVars, verifyVars, scanVars, cacheVars, pureVars,
                filterVars, apiVars, wizardVars>>
notApi == <<authVars, bookVars, verifyVars, scanVars, cacheVars, pureVars,
            filterVars, extractVars, wizardVars>>
notWizard == <<authVars, bookVars, verifyVars, scanVars, cacheVars, pureVars,
               filterVars, extractVars, apiVars>>

(***************************************************************************)
(* Session Manager: src/src/services/auth.ts                               *)
(***************************************************************************)
Callers == 1..NCallers

\* An absent LocalStorage item (getItem answers undefined), a null local.
NoItem == <<>>
\* The anti-forgery token of login n, read from the login page ("login") or
\* from the protected page after the login ("fresh").
TokenItem(n, from) == <<n, from>>
\* The session identifier the portal set for login n.
SessionItem(n) == <<n>>
LoginOf(item) == item[1]

\* AuthCredentials (email and userId of the preferences): the credential
\* pairs 1 and 2; no credentials yet.
Credentials == {1, 2}
NoCredentials == 0
\* The logins of a behaviour: 0 is the login of an earlier run.
Logins == 0..MaxCalls

\* AuthTokens | null
NullTokens == [authenticityToken |-> NoItem, sessionId |-> NoItem]
AuthTokens(tok, sess) == [authenticityToken |-> tok, sessionId |-> sess]

\* What the probe of /self_services/court_invitation can answer: a status, or
\* "error" when fetch throws.
ProbeStatuses == {"200", "302", "error"}

\* A needsLogin whose catch answers false: only 302 means stale.
NeedsLoginResult302Only(status) == status = "302"

\* needsLogin: 302 means stale, and so does a thrown fetch.
NeedsLoginResult(status) == status = "302" \/ status = "error"

\* No call has been made yet.
AuthLocalsInit ==
    /\ apc = [p \in Callers |-> "idle"]
    /\ rdToken = [p \in Callers |-> NoItem]
    /\ tokens = [p \in Callers |-> NullTokens]
    /\ loginToken = [p \in Callers |-> NoItem]
    /\ loginSession = [p \in Callers |-> NoItem]
    /\ nextLogin = 1
    /\ calls = 0
    /\ aKind = [p \in Callers |-> "none"]
    /\ aStale = [p \in Callers |-> NullTokens]
    /\ aProbe = [p \in Callers |-> "none"]
    /\ aLogins = [p \in Callers |-> 0]
    /\ aLoginPair = [p \in Callers |-> NullTokens]
    /\ aRet = [p \in Callers |-> NullTokens]
    /\ aPrev = [p \in Callers |-> NullTokens]
    /\ aFail = [p \in Callers |-> "none"]
    /\ aCred = [p \in Callers |-> NoCredentials]

\* LocalStorage outlives the process: it is empty (first run), or holds the pair
\* an earlier run stored (login 0).
AuthInit ==
    /\ \/ /\ lsToken = NoItem /\ lsSession = NoItem
          /\ loginCred = [n \in Logins |-> NoCredentials]
       \/ /\ lsToken = TokenItem(0, "fresh") /\ lsSession = SessionItem(0)
          /\ \E c \in creds :
                loginCred = [n \in Logins |-> IF n = 0 THEN c ELSE NoCredentials]
    /\ AuthLocalsInit

\* The Session Manager is not called (the specifications of the other
\* components, which take its answer as an input).
AuthOff ==
    /\ callers = {}
    /\ creds = {}
    /\ loginCred = [n \in Logins |-> NoCredentials]
    /\ lsToken = NoItem /\ lsSession = NoItem
    /\ AuthLocalsInit

\* The bookkeeping of a new call of caller p.
BeginCall(p, kind) ==
    /\ p \in callers
    /\ apc[p] \in {"idle", "returned"}
    /\ calls < MaxCalls
    /\ calls' = calls + 1
    /\ aKind' = [aKind EXCEPT ![p] = kind]
    /\ aStale' = [aStale EXCEPT ![p] = NullTokens]
    /\ aProbe' = [aProbe EXCEPT ![p] = "none"]
    /\ aLogins' = [aLogins EXCEPT ![p] = 0]
    /\ aLoginPair' = [aLoginPair EXCEPT ![p] = NullTokens]
    /\ aRet' = [aRet EXCEPT ![p] = NullTokens]
    /\ aPrev' = [aPrev EXCEPT ![p] = AuthTokens(lsToken, lsSession)]
    /\ aFail' = [aFail EXCEPT ![p] = "none"]
    /\ \E c \in creds : aCred' = [aCred EXCEPT ![p] = c]
    /\ rdToken' = [rdToken EXCEPT ![p] = NoItem]
    /\ tokens' = [tokens EXCEPT ![p] = NullTokens]
    /\ loginToken' = [loginToken EXCEPT ![p] = NoItem]
    /\ loginSession' = [loginSession EXCEPT ![p] = NoItem]

\* getAuthTokens(credentials) is entered: it suspends at getStoredTokens.
GetAuthTokensCall(p) ==
    /\ BeginCall(p, "get")
    /\ apc' = [apc EXCEPT ![p] = "getStoredToken"]
    /\ UNCHANGED <<notAuth, callers, creds, loginCred, lsToken, lsSession, nextLogin>>

\* A refreshAuthTokens that goes into getAuthTokens without clearing.
RefreshAuthTokensCallNoClear(p) ==
    /\ BeginCall(p, "refresh")
    /\ apc' = [apc EXCEPT ![p] = "getStoredToken"]
    /\ UNCHANGED <<notAuth, callers, creds, loginCred, lsToken, lsSession, nextLogin>>

\* refreshAuthTokens(credentials) is entered: it suspends at clearStoredTokens.
RefreshAuthTokensCall(p) ==
    /\ BeginCall(p, "refresh")
    /\ apc' = [apc EXCEPT ![p] = "refreshClearToken"]
    /\ UNCHANGED <<notAuth, callers, creds, loginCred, lsToken, lsSession, nextLogin>>

\* clearStoredTokens, first await: LocalStorage.removeItem(STORAGE_KEY_TOKEN).
ClearStoredTokens_Token(p) ==
    /\ apc[p] \in {"refreshClearToken", "staleClearToken"}
    /\ lsToken' = NoItem
    /\ apc' = [apc EXCEPT ![p] = IF apc[p] = "refreshClearToken"
                                 THEN "refreshClearSession"
                                 ELSE "staleClearSession"]
    /\ UNCHANGED <<notAuth, callers, creds, aCred, loginCred, aPrev, aFail, lsSession, rdToken, tokens, loginToken, loginSession,
                   nextLogin, calls, aKind, aStale, aProbe, aLogins, aLoginPair,
                   aRet>>

\* clearStoredTokens, second await: LocalStorage.removeItem(STORAGE_KEY_SESSION);
\* refreshAuthTokens goes on into getAuthTokens, getAuthTokens into performLogin.
ClearStoredTokens_Session(p) ==
    /\ apc[p] \in {"refreshClearSession", "staleClearSession"}
    /\ lsSession' = NoItem
    /\ apc' = [apc EXCEPT ![p] = IF apc[p] = "refreshClearSession"
                                 THEN "getStoredToken"
                                 ELSE "loginPage"]
    /\ UNCHANGED <<notAuth, callers, creds, aCred, loginCred, aPrev, aFail, lsToken, rdToken, tokens, loginToken, loginSession,
                   nextLogin, calls, aKind, aStale, aProbe, aLogins, aLoginPair,
                   aRet>>

\* getStoredTokens, first await: LocalStorage.getItem(STORAGE_KEY_TOKEN).
GetStoredTokens_Token(p) ==
    /\ apc[p] = "getStoredToken"
    /\ rdToken' = [rdToken EXCEPT ![p] = lsToken]
    /\ apc' = [apc EXCEPT ![p] = "getStoredSession"]
    /\ UNCHANGED <<notAuth, callers, creds, aCred, loginCred, aPrev, aFail, lsToken, lsSession, tokens, loginToken, loginSession,
                   nextLogin, calls, aKind, aStale, aProbe, aLogins, aLoginPair,
                   aRet>>

\* getStoredTokens, second await: LocalStorage.getItem(STORAGE_KEY_SESSION); the
\* pair is returned when both items are there, null otherwise.  getAuthTokens
\* probes a pair and logs in without one.
GetStoredTokens_Session(p) ==
    /\ apc[p] = "getStoredSession"
    /\ LET stored == IF rdToken[p] # NoItem /\ lsSession # NoItem
                     THEN AuthTokens(rdToken[p], lsSession)
                     ELSE NullTokens
       IN /\ tokens' = [tokens EXCEPT ![p] = stored]
          /\ aStale' = [aStale EXCEPT ![p] = stored]
          /\ apc' = [apc EXCEPT ![p] = IF stored # NullTokens
                                       THEN "needsLogin"
                                       ELSE "loginPage"]
    /\ UNCHANGED <<notAuth, callers, creds, aCred, loginCred, aPrev, aFail, lsToken, lsSession, rdToken, loginToken, loginSession,
                   nextLogin, calls, aKind, aProbe, aLogins, aLoginPair, aRet>>

\* needsLogin(tokens.sessionId) answers: the stored pair is returned when it is
\* still valid, and cleared otherwise.
NeedsLogin(p) ==
    /\ apc[p] = "needsLogin"
    /\ \E status \in ProbeStatuses :
          /\ aProbe' = [aProbe EXCEPT ![p] = status]
          /\ IF NeedsLoginResult(status)
             THEN /\ apc' = [apc EXCEPT ![p] = "staleClearToken"]
                  /\ aRet' = aRet
             ELSE /\ apc' = [apc EXCEPT ![p] = "returned"]
                  /\ aRet' = [aRet EXCEPT ![p] = tokens[p]]
    /\ UNCHANGED <<notAuth, callers, creds, aCred, loginCred, aPrev, aFail, lsToken, lsSession, rdToken, tokens, loginToken,
                   loginSession, nextLogin, calls, aKind, aStale, aLogins,
                   aLoginPair>>

\* performLogin returned null, the error logged by its catch being `reason`:
\* getAuthTokens returns null.
LoginFailed(p, reason) ==
    /\ aFail' = [aFail EXCEPT ![p] = reason]
    /\ tokens' = [tokens EXCEPT ![p] = NullTokens]
    /\ aRet' = [aRet EXCEPT ![p] = NullTokens]
    /\ apc' = [apc EXCEPT ![p] = "returned"]

\* performLogin is entered; getAuthenticityTokenFromLoginPage answers a token,
\* or null (no hidden field in the page, or fetch threw).
PerformLogin_LoginPage(p) ==
    /\ apc[p] = "loginPage"
    /\ aLogins' = [aLogins EXCEPT ![p] = @ + 1]
    /\ \E answer \in {"token", "noToken", "networkError"} :
          IF answer = "token"
          THEN /\ loginToken' = [loginToken EXCEPT ![p] = TokenItem(nextLogin, "login")]
               /\ nextLogin' = nextLogin + 1
               /\ loginCred' = [loginCred EXCEPT ![nextLogin] = aCred[p]]
               /\ apc' = [apc EXCEPT ![p] = "loginPost"]
               /\ UNCHANGED <<tokens, aRet, aFail>>
          ELSE /\ LoginFailed(p, answer)
               /\ UNCHANGED <<loginToken, nextLogin, loginCred>>
    /\ UNCHANGED <<notAuth, callers, creds, aCred, aPrev, lsToken, lsSession, rdToken, loginSession, calls,
                   aKind, aStale, aProbe, aLoginPair>>

\* The POST of /self_services/login.js answers: a _session_id cookie, none, or
\* fetch throws.
PerformLogin_Post(p) ==
    /\ apc[p] = "loginPost"
    /\ \E answer \in {"cookie", "noCookie", "networkError"} :
          IF answer = "cookie"
          THEN /\ loginSession' = [loginSession EXCEPT
                                     ![p] = SessionItem(LoginOf(loginToken[p]))]
               /\ apc' = [apc EXCEPT ![p] = "loginFresh"]
               /\ UNCHANGED <<tokens, aRet, aFail>>
          ELSE /\ LoginFailed(p, answer)
               /\ UNCHANGED loginSession
    /\ UNCHANGED <<notAuth, callers, creds, aCred, loginCred, aPrev, lsToken, lsSession, rdToken, loginToken, nextLogin,
                   calls, aKind, aStale, aProbe, aLogins, aLoginPair>>

\* The GET of the protected page with the new cookie answers: a fresh token,
\* a page without one (the login page's token is kept), or fetch throws.
\* getAuthTokens then suspends at storeTokens.
PerformLogin_Fresh(p) ==
    /\ apc[p] = "loginFresh"
    /\ \E answer \in {"token", "noToken", "networkError"} :
          IF answer = "networkError"
          THEN /\ LoginFailed(p, answer)
               /\ UNCHANGED aLoginPair
          ELSE LET pair == AuthTokens(
                              IF answer = "token"
                              THEN TokenItem(LoginOf(loginSession[p]), "fresh")
                              ELSE loginToken[p],
                              loginSession[p])
               IN /\ tokens' = [tokens EXCEPT ![p] = pair]
                  /\ aLoginPair' = [aLoginPair EXCEPT ![p] = pair]
                  /\ apc' = [apc EXCEPT ![p] = "storeToken"]
                  /\ UNCHANGED <<aRet, aFail>>
    /\ UNCHANGED <<notAuth, callers, creds, aCred, loginCred, aPrev, lsToken, lsSession, rdToken, loginToken, loginSession,
                   nextLogin, calls, aKind, aStale, aProbe, aLogins>>

\* storeTokens, first await: LocalStorage.setItem(STORAGE_KEY_TOKEN, ...).
StoreTokens_Token(p) ==
    /\ apc[p] = "storeToken"
    /\ lsToken' = tokens[p].authenticityToken
    /\ apc' = [apc EXCEPT ![p] = "storeSession"]
    /\ UNCHANGED <<notAuth, callers, creds, aCred, loginCred, aPrev, aFail, lsSession, rdToken, tokens, loginToken, loginSession,
                   nextLogin, calls, aKind, aStale, aProbe, aLogins, aLoginPair,
                   aRet>>

\* A storeTokens that forgets the session item.
StoreTokens_SessionSkipped(p) ==
    /\ apc[p] = "storeSession"
    /\ aRet' = [aRet EXCEPT ![p] = tokens[p]]
    /\ apc' = [apc EXCEPT ![p] = "returned"]
    /\ UNCHANGED <<notAuth, callers, creds, aCred, loginCred, aPrev, aFail, lsToken, lsSession, rdToken, tokens,
                   loginToken, loginSession, nextLogin, calls, aKind, aStale,
                   aProbe, aLogins, aLoginPair>>

\* storeTokens, second await: LocalStorage.setItem(STORAGE_KEY_SESSION, ...);
\* getAuthTokens returns the new pair.
StoreTokens_Session(p) ==
    /\ apc[p] = "storeSession"
    /\ lsSession' = tokens[p].sessionId
    /\ aRet' = [aRet EXCEPT ![p] = tokens[p]]
    /\ apc' = [apc EXCEPT ![p] = "returned"]
    /\ UNCHANGED <<notAuth, callers, creds, aCred, loginCred, aPrev, aFail, lsToken, rdToken, tokens, loginToken, loginSession,
                   nextLogin, calls, aKind, aStale, aProbe, aLogins, aLoginPair>>

AuthNext ==
    \E p \in Callers :
        \/ GetAuthTokensCall(p)
        \/ RefreshAuthTokensCall(p)
        \/ ClearStoredTokens_Token(p)
        \/ ClearStoredTokens_Session(p)
        \/ GetStoredTokens_Token(p)
        \/ GetStoredTokens_Session(p)
        \/ NeedsLogin(p)
        \/ PerformLogin_LoginPage(p)
        \/ PerformLogin_Post(p)
        \/ PerformLogin_Fresh(p)
        \/ StoreTokens_Token(p)
        \/ StoreTokens_Session(p)

(***************************************************************************)
(* verifyStep4: src/src/services/puppeteer.ts                              *)
(***************************************************************************)
\* The text of #step-4 is a sequence of phrases: a known success phrase, a known
\* failure phrase, or any other text.  One phrase stands for 150 characters.
Phrases == {"success", "error", "other"}

\* step4Text is cut with substring(0, 300): two phrases.
Step4TextLimit == 2

Step4Texts == UNION {[1..n -> Phrases] : n \in 0..MaxTextLen}

\* What the confirmation step can show.
Step4Pages ==
    [step4Visible : BOOLEAN, hasAlertSuccess : BOOLEAN, hasAlertDanger : BOOLEAN,
     hasAlertWarning : BOOLEAN, text : Step4Texts]

Includes(text, phrase) == \E i \in DOMAIN text : text[i] = phrase

Substring(text, n) == SubSeq(text, 1, IF Len(text) < n THEN Len(text) ELSE n)

\* verifyStep4: false when #step-4 does not become visible (the wait throws),
\* false when an error shows, and otherwise whether a success shows; the text
\* looked at is the first 300 characters of #step-4.
VerifyStep4Result(page) ==
    IF ~page.step4Visible
    THEN FALSE
    ELSE LET step4Text == Substring(page.text, Step4TextLimit)
             hasSuccess == page.hasAlertSuccess \/ Includes(step4Text, "success")
             hasError == \/ page.hasAlertDanger
                         \/ page.hasAlertWarning
                         \/ Includes(step4Text, "error")
         IN IF hasError THEN FALSE ELSE hasSuccess

NoPage == [step4Visible |-> FALSE, hasAlertSuccess |-> FALSE,
           hasAlertDanger |-> FALSE, hasAlertWarning |-> FALSE, text |-> <<>>]

\* Any page is an input of verifyStep4.
VerifyInit == vPage \in Step4Pages /\ vResult = "none"

VerifyOff == vPage = NoPage /\ vResult = "none"

\* verifyStep4(page) runs and returns.
VerifyStep4Run ==
    /\ vResult = "none"
    /\ vResult' = IF VerifyStep4Result(vPage) THEN "true" ELSE "false"
    /\ UNCHANGED <<notVerify, vPage>>

VerifyNext == VerifyStep4Run

(***************************************************************************)
(* Booking: handleBookCourt (src/src/view-courts.tsx) and                  *)
(* bookCourtAutomatically (src/src/services/puppeteer.ts)                  *)
(***************************************************************************)
Requests == 1..NRequests

\* The four wizard steps in the order bookCourtAutomatically calls them.
StepOrder == <<"fillStep1", "selectCourtInStep2", "confirmStep3", "verifyStep4">>

\* bookCourtAutomatically has been entered and has not returned.
RunPcs == {"startToast", "getAuthTokens", "launch", "newPage", "setCookie",
           "fillStep1", "selectCourtInStep2", "confirmStep3", "verifyStep4",
           "successSleep", "catch", "failSleep", "finally"}

BookInit ==
    /\ isBooking = FALSE
    /\ bpc = [r \in Requests |-> "idle"]
    /\ browserVar = [r \in Requests |-> FALSE]
    /\ launched = [r \in Requests |-> FALSE]
    /\ closed = [r \in Requests |-> FALSE]
    /\ steps = [r \in Requests |-> <<>>]
    /\ bResult = [r \in Requests |-> "none"]

\* handleBookCourt is invoked: with isBooking set it shows "Booking in progress"
\* and returns; otherwise it suspends at confirmAlert.  (isBooking is read here
\* as the state holds it; the handler reads the value of the last render.)
HandleBookCourt(r) ==
    /\ bpc[r] = "idle"
    /\ bpc' = [bpc EXCEPT ![r] = IF isBooking THEN "rejected" ELSE "confirmAlert"]
    /\ UNCHANGED <<notBook, isBooking, browserVar, launched, closed, steps, bResult>>

\* The user answers the alert: declined, the handler returns; confirmed, it
\* calls setIsBooking(true) and enters bookCourtAutomatically, which suspends at
\* its first toast.
ConfirmAlert(r) ==
    /\ bpc[r] = "confirmAlert"
    /\ \E confirmed \in BOOLEAN :
          IF confirmed
          THEN /\ isBooking' = TRUE
               /\ bpc' = [bpc EXCEPT ![r] = "startToast"]
          ELSE /\ bpc' = [bpc EXCEPT ![r] = "declined"]
               /\ UNCHANGED isBooking
    /\ UNCHANGED <<notBook, browserVar, launched, closed, steps, bResult>>

\* "Starting automation..." is shown; launchBrowser is entered and suspends at
\* getAuthTokens.
BookCourtAutomatically_Start(r) ==
    /\ bpc[r] = "startToast"
    /\ bpc' = [bpc EXCEPT ![r] = "getAuthTokens"]
    /\ UNCHANGED <<notBook, isBooking, browserVar, launched, closed, steps, bResult>>

\* launchBrowser: getAuthTokens answers a pair or null; null is thrown, caught
\* inside launchBrowser and returned as null, which bookCourtAutomatically throws.
LaunchBrowser_GetAuthTokens(r) ==
    /\ bpc[r] = "getAuthTokens"
    /\ \E authenticated \in BOOLEAN :
          bpc' = [bpc EXCEPT ![r] = IF authenticated THEN "launch" ELSE "catch"]
    /\ UNCHANGED <<notBook, isBooking, browserVar, launched, closed, steps, bResult>>

\* launchBrowser: puppeteer.launch answers a browser, or throws (as getChromePath
\* does when no Chrome is found).
LaunchBrowser_Launch(r) ==
    /\ bpc[r] = "launch"
    /\ \E ok \in BOOLEAN :
          /\ launched' = [launched EXCEPT ![r] = ok]
          /\ bpc' = [bpc EXCEPT ![r] = IF ok THEN "newPage" ELSE "catch"]
    /\ UNCHANGED <<notBook, isBooking, browserVar, closed, steps, bResult>>

\* launchBrowser: browser.newPage answers a page, or throws: launchBrowser
\* catches and returns null.
LaunchBrowser_NewPage(r) ==
    /\ bpc[r] = "newPage"
    /\ \E ok \in BOOLEAN :
          bpc' = [bpc EXCEPT ![r] = IF ok THEN "setCookie" ELSE "catch"]
    /\ UNCHANGED <<notBook, isBooking, browserVar, launched, closed, steps, bResult>>

\* launchBrowser: browser.setCookie returns, and bookCourtAutomatically assigns
\* `browser = result.browser`; or it throws and launchBrowser returns null.
LaunchBrowser_SetCookie(r) ==
    /\ bpc[r] = "setCookie"
    /\ \E ok \in BOOLEAN :
          /\ browserVar' = [browserVar EXCEPT ![r] = ok]
          /\ bpc' = [bpc EXCEPT ![r] = IF ok THEN "fillStep1" ELSE "catch"]
    /\ UNCHANGED <<notBook, isBooking, launched, closed, steps, bResult>>

\* A driver that goes on whatever the step returned.
AfterStepUnchecked(ok, next) == next

\* if (!stepNSuccess) throw new Error(...): a failed step goes to the catch
\* block, a successful one to the next await.
AfterStep(ok, next) == IF ok THEN next ELSE "catch"

\* A wizard step returned `outcome`.
StepDone(r, outcome, next) ==
    /\ steps' = [steps EXCEPT ![r] = Append(@, [step |-> bpc[r],
                                                  outcome |-> outcome,
                                                  ok |-> outcome # "failed"])]
    /\ bpc' = [bpc EXCEPT ![r] = AfterStep(outcome # "failed", next)]

\* fillStep1 returns: true without touching the form when #step-3 already
\* shows, true after the form was submitted, false on any error.
FillStep1(r) ==
    /\ bpc[r] = "fillStep1"
    /\ \E outcome \in {"skipped", "submitted", "failed"} :
          StepDone(r, outcome, "selectCourtInStep2")
    /\ UNCHANGED <<notBook, isBooking, browserVar, launched, closed, bResult>>

\* selectCourtInStep2 returns: true when #step-3 already shows, true after a
\* court link was clicked and step 3 showed, false on any error.
SelectCourtInStep2(r) ==
    /\ bpc[r] = "selectCourtInStep2"
    /\ \E outcome \in {"skipped", "clicked", "failed"} :
          StepDone(r, outcome, "confirmStep3")
    /\ UNCHANGED <<notBook, isBooking, browserVar, launched, closed, bResult>>

\* confirmStep3 returns: true after the continue control was clicked and
\* #step-4 appeared, false on any error.
ConfirmStep3(r) ==
    /\ bpc[r] = "confirmStep3"
    /\ \E outcome \in {"clicked", "failed"} :
          StepDone(r, outcome, "verifyStep4")
    /\ UNCHANGED <<notBook, isBooking, browserVar, launched, closed, bResult>>

\* verifyStep4 returns what it makes of the page; on true the success toast is
\* shown and the run sleeps 3 s.
VerifyStep4(r) ==
    /\ bpc[r] = "verifyStep4"
    /\ \E verified \in {VerifyStep4Result(page) : page \in Step4Pages} :
          StepDone(r, IF verified THEN "verified" ELSE "failed", "successSleep")
    /\ UNCHANGED <<notBook, isBooking, browserVar, launched, closed, bResult>>

\* The 3 s are over: return true (the finally block runs next).
BookCourtAutomatically_ReturnTrue(r) ==
    /\ bpc[r] = "successSleep"
    /\ bResult' = [bResult EXCEPT ![r] = "true"]
    /\ bpc' = [bpc EXCEPT ![r] = "finally"]
    /\ UNCHANGED <<notBook, isBooking, browserVar, launched, closed, steps>>

\* catch: "Booking failed" is shown; with `browser` set the run sleeps 5 s,
\* without it returns false at once.
BookCourtAutomatically_Catch(r) ==
    /\ bpc[r] = "catch"
    /\ IF browserVar[r]
       THEN /\ bpc' = [bpc EXCEPT ![r] = "failSleep"]
            /\ UNCHANGED bResult
       ELSE /\ bpc' = [bpc EXCEPT ![r] = "finally"]
            /\ bResult' = [bResult EXCEPT ![r] = "false"]
    /\ UNCHANGED <<notBook, isBooking, browserVar, launched, closed, steps>>

\* The 5 s are over: return false.
BookCourtAutomatically_ReturnFalse(r) ==
    /\ bpc[r] = "failSleep"
    /\ bResult' = [bResult EXCEPT ![r] = "false"]
    /\ bpc' = [bpc EXCEPT ![r] = "finally"]
    /\ UNCHANGED <<notBook, isBooking, browserVar, launched, closed, steps>>

\* finally: if (browser) await browser.close(); the call returns to
\* handleBookCourt with the value of the return statement, or, when close()
\* rejects, throws into the catch block of handleBookCourt.
BookCourtAutomatically_Finally(r) ==
    /\ bpc[r] = "finally"
    /\ closed' = [closed EXCEPT ![r] = browserVar[r]]
    /\ \E closeThrows \in BOOLEAN :
          bpc' = [bpc EXCEPT ![r] = IF browserVar[r] /\ closeThrows
                                    THEN "handlerCatch"
                                    ELSE "handlerFinally"]
    /\ UNCHANGED <<notBook, isBooking, browserVar, launched, steps, bResult>>

\* handleBookCourt, catch: "Booking failed" is shown.
HandleBookCourt_Catch(r) ==
    /\ bpc[r] = "handlerCatch"
    /\ bpc' = [bpc EXCEPT ![r] = "handlerFinally"]
    /\ UNCHANGED <<notBook, isBooking, browserVar, launched, closed, steps, bResult>>

\* A handler whose finally block leaves the flag as it is.
HandleBookCourt_FinallyKept(r) ==
    /\ bpc[r] = "handlerFinally"
    /\ bpc' = [bpc EXCEPT ![r] = "done"]
    /\ UNCHANGED <<notBook, isBooking, browserVar, launched, closed, steps, bResult>>

\* handleBookCourt: the success toast when the run returned true, then
\* finally { setIsBooking(false) }.
HandleBookCourt_Finally(r) ==
    /\ bpc[r] = "handlerFinally"
    /\ isBooking' = FALSE
    /\ bpc' = [bpc EXCEPT ![r] = "done"]
    /\ UNCHANGED <<notBook, browserVar, launched, closed, steps, bResult>>

\* The steps of a request that run without the user: every toast, portal
\* answer, browser call and delay of an attempt settles.
BookSettles(r) ==
    \/ BookCourtAutomatically_Start(r)
    \/ LaunchBrowser_GetAuthTokens(r)
    \/ LaunchBrowser_Launch(r)
    \/ LaunchBrowser_NewPage(r)
    \/ LaunchBrowser_SetCookie(r)
    \/ FillStep1(r)
    \/ SelectCourtInStep2(r)
    \/ ConfirmStep3(r)
    \/ VerifyStep4(r)
    \/ BookCourtAutomatically_ReturnTrue(r)
    \/ BookCourtAutomatically_Catch(r)
    \/ BookCourtAutomatically_ReturnFalse(r)
    \/ BookCourtAutomatically_Finally(r)
    \/ HandleBookCourt_Catch(r)
    \/ HandleBookCourt_Finally(r)

BookNext ==
    \E r \in Requests :
        \/ HandleBookCourt(r)
        \/ ConfirmAlert(r)
        \/ BookCourtAutomatically_Start(r)
        \/ LaunchBrowser_GetAuthTokens(r)
        \/ LaunchBrowser_Launch(r)
        \/ LaunchBrowser_NewPage(r)
        \/ LaunchBrowser_SetCookie(r)
        \/ FillStep1(r)
        \/ SelectCourtInStep2(r)
        \/ ConfirmStep3(r)
        \/ VerifyStep4(r)
        \/ BookCourtAutomatically_ReturnTrue(r)
        \/ BookCourtAutomatically_Catch(r)
        \/ BookCourtAutomatically_ReturnFalse(r)
        \/ BookCourtAutomatically_Finally(r)
        \/ HandleBookCourt_Catch(r)
        \/ HandleBookCourt_Finally(r)

(***************************************************************************)
(* Availability Scanner: fetchCourts in src/src/view-courts.tsx            *)
(***************************************************************************)
Scans == 1..NScans

\* `batchSize`; the model scans with batches of 2 where the code has 5.
BatchSize == 2

\* A start time "HH:MM", as minutes of the day.
Time(h, m) == h * 60 + m
\* `time` of an array hole / of an object that has no time.
NoTime == -1

\* The candidate lists generateTimeSlotsForDate can return: 08:00, 09:00, ...
Hours == [i \in 1..NSlots |-> Time(7 + i, 0)]
CandidateLists == {SubSeq(Hours, 1, n) : n \in 0..NSlots}

\* CourtAvailability | null, as far as fetchCourts reads it.
NullAvailability == [status |-> "null", suggestedTimes |-> <<>>]
\* The suggestedTimes a no-courts answer can carry: none, or a candidate and a
\* time that is no candidate.
SuggestedLists == {<<>>, <<Time(9, 0), Time(8, 30)>>}
\* What searchCourts can answer.
ProbeAnswers ==
    {NullAvailability, [status |-> "available", suggestedTimes |-> <<>>]}
    \cup [status : {"no-courts"}, suggestedTimes : SuggestedLists]

\* A TimeSlotResult; isRangeStart/rangeEnd absent are FALSE/NoTime.  `date` is
\* the selectedDate of the scan that made the entry.
Entry(date, time, availability, loading) ==
    [date |-> date, time |-> time, availability |-> availability,
     isLoading |-> loading, isRangeStart |-> FALSE, rangeEnd |-> NoTime]
\* An index of the array nothing was assigned to.
Hole == Entry(0, NoTime, NullAvailability, FALSE)

\* slots.map(slot => ({..., availability: null, isLoading: true}))
InitialResults(date, times) ==
    [i \in 1..Len(times) |-> Entry(date, times[i], NullAvailability, TRUE)]

Max(a, b) == IF a > b THEN a ELSE b
Min(a, b) == IF a < b THEN a ELSE b
SetMax(S) == CHOOSE x \in S : \A y \in S : y <= x
Range(f) == {f[i] : i \in DOMAIN f}

\* slot.endsWith(':00'), slot.endsWith(':30')
EndsWith00(slot) == slot % 60 = 0
EndsWith30(slot) == slot % 60 = 30
\* String(parseInt(hours) + 1).padStart(2, '0') + ':00'
NextHour(slot) == Time((slot \div 60) + 1, 0)

\* An argument that is not supplied: no list of times.
Undefined == <<NoTime>>
\* getDayOfWeek(date): 0 is Sunday.
GetDayOfWeek(date) == date % 7
\* The hours from..to as "HH:00" values.
FullHours(from, to) == [i \in 1..(to - from + 1) |-> Time(from + i - 1, 0)]
\* getValidTimeSlots(date): the opening hours of the weekday.
GetValidTimeSlots(date) ==
    IF GetDayOfWeek(date) <= 4
    THEN FullHours(8, 22)
    ELSE IF GetDayOfWeek(date) = 5
         THEN FullHours(7, 16)
         ELSE FullHours(7, 12) \o FullHours(16, 21)

\* A generateTimeSlotsForDate that takes the opening hours for an empty list
\* as well (an || on the length of the list).
GenerateTimeSlotsForDateOrDefault(date, availableTimeSlots, now) ==
    LET validSlots == IF availableTimeSlots = Undefined \/ availableTimeSlots = <<>>
                      THEN GetValidTimeSlots(date)
                      ELSE availableTimeSlots
    IN [i \in 1..Len(validSlots) |-> [date |-> date, time |-> validSlots[i]]]

\* generateTimeSlotsForDate(date, availableTimeSlots) at the time `now`.
GenerateTimeSlotsForDate(date, availableTimeSlots, now) ==
    LET validSlots == IF availableTimeSlots = Undefined
                      THEN GetValidTimeSlots(date)
                      ELSE availableTimeSlots
        afterNow(slot) == slot \div 60 > now.currentHour
        slotsToInclude == IF now.isToday
                          THEN SelectSeq(validSlots, afterNow)
                          ELSE validSlots
        keep(slot) == IF EndsWith00(slot)
                      THEN TRUE
                      ELSE IF EndsWith30(slot)
                           THEN NextHour(slot) \notin Range(slotsToInclude)
                           ELSE TRUE
        kept == SelectSeq(slotsToInclude, keep)
    IN [i \in 1..Len(kept) |-> [date |-> date, time |-> kept[i]]]

\* new Date() of a scan: the scans are for a date that is not today.
ScanNow == [isToday |-> FALSE, currentHour |-> 7, currentMinute |-> 10]
\* slots.map(s => s.time)
TimesOf(slotList) == [i \in 1..Len(slotList) |-> slotList[i].time]

\* batchEnd, as a count of slots.
BatchEnd(s) == Min(batchStart[s] + BatchSize, Len(slots[s]))
\* The 1-based indices of the current batch.
BatchIndices(s) == (batchStart[s] + 1)..BatchEnd(s)

\* A Promise.race in the place of the Promise.all: resolved by the first answer.
BatchSettledByFirst(s) == DOMAIN batchResults[s] # {}
\* Promise.all(batchPromises) resolves when every probe of the batch answered.
BatchSettled(s) == inflight[s] = {}

\* A batch update that is given up when a probe of the batch failed.
MergeBatchAllOrNothing(prev, answers) ==
    IF DOMAIN answers = {} \/ \E i \in DOMAIN answers : answers[i] = NullAvailability
    THEN prev
    ELSE [i \in 1..Max(Len(prev), SetMax(DOMAIN answers)) |->
            LET old == IF i <= Len(prev) THEN prev[i] ELSE Hole
            IN IF i \in DOMAIN answers
               THEN [old EXCEPT !.availability = answers[i], !.isLoading = FALSE]
               ELSE old]

\* A batch update that writes at batchIndex, the position inside the batch,
\* where the code writes at actualIndex.
MergeBatchByBatchIndex(prev, answers) ==
    IF DOMAIN answers = {}
    THEN prev
    ELSE LET first == CHOOSE i \in DOMAIN answers : \A j \in DOMAIN answers : i <= j
             shifted == [i \in {j - first + 1 : j \in DOMAIN answers} |->
                            answers[i + first - 1]]
         IN [i \in 1..Max(Len(prev), SetMax(DOMAIN shifted)) |->
               LET old == IF i <= Len(prev) THEN prev[i] ELSE Hole
               IN IF i \in DOMAIN shifted
                  THEN [old EXCEPT !.availability = shifted[i], !.isLoading = FALSE]
                  ELSE old]

\* The batch update of setResults: newResults[index] = {...newResults[index],
\* availability, isLoading: false} for every answer; an index past the end
\* lengthens the array.
MergeBatch(prev, answers) ==
    IF DOMAIN answers = {}
    THEN prev
    ELSE [i \in 1..Max(Len(prev), SetMax(DOMAIN answers)) |->
            LET old == IF i <= Len(prev) THEN prev[i] ELSE Hole
            IN IF i \in DOMAIN answers
               THEN [old EXCEPT !.availability = answers[i], !.isLoading = FALSE]
               ELSE old]

\* allSuggestedTimes.add(time), a Set: insertion order, no duplicate.
RECURSIVE AddAll(_, _)
AddAll(set, times) ==
    IF times = <<>>
    THEN set
    ELSE AddAll(IF Head(times) \in Range(set) THEN set ELSE Append(set, Head(times)),
                Tail(times))

\* The forEach over batchResults (index order) that collects suggestedTimes of
\* the no-courts answers.
RECURSIVE CollectSuggested(_, _, _)
CollectSuggested(set, answers, indices) ==
    IF indices = {}
    THEN set
    ELSE LET i == CHOOSE x \in indices : \A y \in indices : x <= y
             a == answers[i]
         IN CollectSuggested(
                IF a.status = "no-courts" THEN AddAll(set, a.suggestedTimes) ELSE set,
                answers, indices \ {i})

\* suggestedTimes without the filter
NewTimesUnfiltered(suggested, times) == suggested

\* suggestedTimes.filter(time => !initialTimeSet.has(time))
NewTimes(suggested, times) ==
    LET notCandidate(t) == t \notin Range(times)
    IN SelectSeq(suggested, notCandidate)

\* Array.prototype.sort by time of day: stable.
RECURSIVE InsertByTime(_, _)
InsertByTime(sorted, e) ==
    IF sorted = <<>>
    THEN <<e>>
    ELSE IF e.time < Head(sorted).time
         THEN <<e>> \o sorted
         ELSE <<Head(sorted)>> \o InsertByTime(Tail(sorted), e)
RECURSIVE SortByTime(_)
SortByTime(xs) ==
    IF xs = <<>>
    THEN <<>>
    ELSE InsertByTime(SortByTime(SubSeq(xs, 1, Len(xs) - 1)), xs[Len(xs)])

\* An update that adds the suggested slots at the end, without the sort.
AddSuggestedAppended(prev, date, times) ==
    LET notThere(t) == \A i \in DOMAIN prev : prev[i].time # t
        newTimes == SelectSeq(times, notThere)
    IN prev \o [i \in 1..Len(newTimes) |->
                   Entry(date, newTimes[i], NullAvailability, TRUE)]

\* The update that adds the suggested slots, loading, and sorts the list.
AddSuggested(prev, date, times) ==
    LET notThere(t) == \A i \in DOMAIN prev : prev[i].time # t
        newTimes == SelectSeq(times, notThere)
        newSlots == [i \in 1..Len(newTimes) |->
                        Entry(date, newTimes[i], NullAvailability, TRUE)]
    IN IF Len(newSlots) > 0 THEN SortByTime(prev \o newSlots) ELSE prev

\* An update of one suggested slot that gets lost.
SetByTimeLost(prev, time, availability) == prev

\* The update of one suggested slot: findIndex(r => r.time === time).
SetByTime(prev, time, availability) ==
    IF \E i \in DOMAIN prev : prev[i].time = time
    THEN LET index == CHOOSE i \in DOMAIN prev :
                         /\ prev[i].time = time
                         /\ \A j \in DOMAIN prev : prev[j].time = time => i <= j
         IN [prev EXCEPT ![index].availability = availability,
                         ![index].isLoading = FALSE]
    ELSE prev

IsNoCourts(r) == r.availability.status = "no-courts"

\* endIndex when the inner loop looks at one following entry only.
RunEndOfPair(rs, i) ==
    IF i + 1 <= Len(rs) /\ IsNoCourts(rs[i + 1]) THEN i + 1 ELSE i

\* endIndex of the run of no-courts entries that starts at i.
RECURSIVE RunEnd(_, _)
RunEnd(rs, i) ==
    IF i + 1 <= Len(rs) /\ IsNoCourts(rs[i + 1]) THEN RunEnd(rs, i + 1) ELSE i

\* The while loop that merges consecutive no-courts entries, from index i.
RECURSIVE MergeRanges(_, _)
MergeRanges(rs, i) ==
    IF i > Len(rs)
    THEN <<>>
    ELSE IF ~IsNoCourts(rs[i])
         THEN <<rs[i]>> \o MergeRanges(rs, i + 1)
         ELSE LET endIndex == RunEnd(rs, i)
              IN <<IF endIndex = i
                   THEN rs[i]
                   ELSE [rs[i] EXCEPT !.isRangeStart = TRUE,
                                      !.rangeEnd = rs[endIndex].time]>>
                 \o MergeRanges(rs, endIndex + 1)

\* A last update that merges the ranges whether an entry is loading or not.
ConsolidateWhileLoading(prev) == MergeRanges(prev, 1)

\* The last update of setResults: nothing while an entry is loading, the merge
\* of the ranges otherwise.  (An array hole is kept as an entry that is not
\* no-courts.)
Consolidate(prev) ==
    IF \E i \in DOMAIN prev : prev[i].isLoading THEN prev ELSE MergeRanges(prev, 1)

\* What a searchCourts call comes to: without tokens it throws into its own
\* catch and returns null; with tokens any answer, null for a failed request.
SearchCourtsAnswers ==
    {[tokens |-> FALSE, availability |-> NullAvailability]}
    \cup [tokens : {TRUE}, availability : ProbeAnswers]
\* What fetchTimeSlots and generateTimeSlotsForDate come to: without tokens
\* fetchTimeSlots returns [] and there is no candidate.
TimeSlotsAnswers ==
    {[tokens |-> FALSE, times |-> <<>>]} \cup [tokens : {TRUE}, times : CandidateLists]

\* No answer yet: batchResults of an empty batch.
NoAnswers == [i \in {} |-> NullAvailability]

ScanInit ==
    /\ results = <<>>
    /\ isLoading = TRUE
    /\ spc = [s \in Scans |-> "idle"]
    /\ isCancelled = [s \in Scans |-> FALSE]
    /\ slots = [s \in Scans |-> <<>>]
    /\ batchStart = [s \in Scans |-> 0]
    /\ inflight = [s \in Scans |-> {}]
    /\ batchResults = [s \in Scans |-> NoAnswers]
    /\ allSuggestedTimes = [s \in Scans |-> <<>>]
    /\ newTimesToFetch = [s \in Scans |-> <<>>]
    /\ sugIndex = [s \in Scans |-> 0]
    /\ issued = [s \in Scans |-> {}]
    /\ merged = [s \in Scans |-> {}]
    /\ probed = [s \in Scans |-> <<>>]
    /\ probedAfterCancel = [s \in Scans |-> FALSE]
    /\ wroteAfterCancel = [s \in Scans |-> FALSE]
    /\ answerOf = [s \in Scans |-> NoAnswers]
    /\ outOfOrder = [s \in Scans |-> FALSE]
    /\ authFailed = [s \in Scans |-> FALSE]
    /\ scanOutcome = [s \in Scans |-> "none"]
    /\ sugInflight = [s \in Scans |-> {}]

\* The locals of fetchCourts with the probes it has issued, and what is
\* recorded of the scan while its effect is not cleaned up.
scanOwn == <<slots, batchStart, inflight, batchResults, allSuggestedTimes,
             newTimesToFetch, sugIndex, issued, merged, probed, sugInflight>>
scanRecord == <<answerOf, outOfOrder, authFailed, scanOutcome>>
scanLocals == <<scanOwn, scanRecord>>

\* The record of a scan ends with the cleanup of its effect.
Unrecord(s) ==
    /\ answerOf' = [answerOf EXCEPT ![s] = NoAnswers]
    /\ outOfOrder' = [outOfOrder EXCEPT ![s] = FALSE]
    /\ authFailed' = [authFailed EXCEPT ![s] = FALSE]
    /\ scanOutcome' = [scanOutcome EXCEPT ![s] = "none"]

\* Nothing is left of a fetchCourts that has returned and whose effect was
\* cleaned up.
Forget(s) ==
    /\ slots' = [slots EXCEPT ![s] = <<>>]
    /\ batchStart' = [batchStart EXCEPT ![s] = 0]
    /\ inflight' = [inflight EXCEPT ![s] = {}]
    /\ batchResults' = [batchResults EXCEPT ![s] = NoAnswers]
    /\ allSuggestedTimes' = [allSuggestedTimes EXCEPT ![s] = <<>>]
    /\ newTimesToFetch' = [newTimesToFetch EXCEPT ![s] = <<>>]
    /\ sugIndex' = [sugIndex EXCEPT ![s] = 0]
    /\ issued' = [issued EXCEPT ![s] = {}]
    /\ merged' = [merged EXCEPT ![s] = {}]
    /\ probed' = [probed EXCEPT ![s] = <<>>]
    /\ sugInflight' = [sugInflight EXCEPT ![s] = {}]
    /\ Unrecord(s)

\* Scan s calls setResults or setIsLoading.
Writes(s) ==
    wroteAfterCancel' = [wroteAfterCancel EXCEPT ![s] = @ \/ isCancelled[s]]

\* The parameters of a searchCourts call of scan s: date: slot.date or
\* selectedDate, startHour: the time, duration: 1.
SearchParams(s, time) == [date |-> s, startHour |-> time, duration |-> 1]

\* Scan s calls searchCourts for the start times `times`.
Probes(s, times) ==
    /\ probed' = [probed EXCEPT
                    ![s] = @ \o [i \in 1..Len(times) |-> SearchParams(s, times[i])]]
    /\ probedAfterCancel' = [probedAfterCancel EXCEPT ![s] = @ \/ isCancelled[s]]

\* Scan s calls searchCourts for the suggested time `time`.
ProbesSuggested(s, time) ==
    /\ Probes(s, <<time>>)
    /\ sugInflight' = [sugInflight EXCEPT ![s] = @ \cup {time}]

\* CourtsForDate is mounted: the effect runs and calls fetchCourts, which
\* suspends at its first toast.
RunEffect(s) ==
    /\ s = 1
    /\ spc[s] = "idle"
    /\ spc' = [spc EXCEPT ![s] = "loadingToast"]
    /\ UNCHANGED <<notScan, answerOf, outOfOrder, authFailed, scanOutcome, results, isLoading, isCancelled, slots, batchStart,
                   inflight, batchResults, allSuggestedTimes, newTimesToFetch,
                   sugIndex, issued, merged, probed, probedAfterCancel,
                   wroteAfterCancel, sugInflight>>

\* selectedDate changes: the cleanup of the running effect sets isCancelled and
\* the effect runs again for the new date.
SelectedDateChanged(s) ==
    /\ s + 1 \in Scans
    /\ spc[s] # "idle"
    /\ ~isCancelled[s]
    /\ isCancelled' = [isCancelled EXCEPT ![s] = TRUE]
    /\ spc' = [spc EXCEPT ![s + 1] = "loadingToast"]
    /\ IF spc[s] = "returned" THEN Forget(s) ELSE Unrecord(s) /\ UNCHANGED scanOwn
    /\ UNCHANGED <<notScan, results, isLoading, probedAfterCancel,
                   wroteAfterCancel>>

\* CourtsForDate is unmounted: the cleanup sets isCancelled.
Unmount(s) ==
    /\ spc[s] # "idle"
    /\ ~isCancelled[s]
    /\ isCancelled' = [isCancelled EXCEPT ![s] = TRUE]
    /\ IF spc[s] = "returned" THEN Forget(s) ELSE Unrecord(s) /\ UNCHANGED scanOwn
    /\ UNCHANGED <<notScan, results, isLoading, spc, probedAfterCancel,
                   wroteAfterCancel>>

\* The "Loading courts" toast is up: return when cancelled, else call
\* fetchTimeSlots.
AfterLoadingToast(s) ==
    /\ spc[s] = "loadingToast"
    /\ spc' = [spc EXCEPT ![s] = IF isCancelled[s] THEN "returned"
                                 ELSE "fetchTimeSlots"]
    /\ UNCHANGED <<notScan, answerOf, outOfOrder, authFailed, scanOutcome, results, isLoading, isCancelled, slots, batchStart,
                   inflight, batchResults, allSuggestedTimes, newTimesToFetch,
                   sugIndex, issued, merged, probed, probedAfterCancel,
                   wroteAfterCancel, sugInflight>>

\* fetchTimeSlots answered: the candidates are generated and
\* setResults(initialResults) is called; the "Checking availability" toast.
TimeSlotsFetched(s) ==
    /\ spc[s] = "fetchTimeSlots"
    /\ \E hours \in TimeSlotsAnswers :
       LET candidates == TimesOf(GenerateTimeSlotsForDate(s, hours.times, ScanNow)) IN
          /\ authFailed' = [authFailed EXCEPT
                              ![s] = ~isCancelled[s] /\ (@ \/ ~hours.tokens)]
          /\ slots' = [slots EXCEPT ![s] = candidates]
          /\ results' = InitialResults(s, candidates)
    /\ Writes(s)
    /\ spc' = [spc EXCEPT ![s] = "checkingToast"]
    /\ UNCHANGED <<notScan, answerOf, outOfOrder, scanOutcome, isLoading, isCancelled, batchStart, inflight,
                   batchResults, allSuggestedTimes, newTimesToFetch, sugIndex,
                   issued, merged, probed, probedAfterCancel, sugInflight>>

\* A batch that takes every slot from `start` on.
StartBatchOfAll(s, start) ==
    LET indices == (start + 1)..Len(slots[s])
    IN /\ batchStart' = [batchStart EXCEPT ![s] = start]
       /\ inflight' = [inflight EXCEPT ![s] = @ \cup indices]
       /\ batchResults' = [batchResults EXCEPT ![s] = NoAnswers]
       /\ issued' = [issued EXCEPT ![s] = @ \cup indices]
       /\ Probes(s, SubSeq(slots[s], start + 1, Len(slots[s])))
       /\ spc' = [spc EXCEPT ![s] = "batch"]
       /\ UNCHANGED sugInflight

\* The body of the batch loop up to `await Promise.all`: one searchCourts call
\* per slot of the batch that starts at `start`.
StartBatch(s, start) ==
    LET indices == (start + 1)..Min(start + BatchSize, Len(slots[s]))
    IN /\ batchStart' = [batchStart EXCEPT ![s] = start]
       /\ inflight' = [inflight EXCEPT ![s] = @ \cup indices]
       /\ batchResults' = [batchResults EXCEPT ![s] = NoAnswers]
       /\ issued' = [issued EXCEPT ![s] = @ \cup indices]
       /\ Probes(s, SubSeq(slots[s], start + 1,
                           Min(start + BatchSize, Len(slots[s]))))
       /\ spc' = [spc EXCEPT ![s] = "batch"]
       /\ UNCHANGED sugInflight

\* The last lines of fetchCourts: the consolidating setResults,
\* setIsLoading(false) and the "Courts loaded" toast.
Finish(s, rs) ==
    /\ results' = Consolidate(rs)
    /\ isLoading' = FALSE
    /\ spc' = [spc EXCEPT ![s] = "returned"]

\* The scan is recorded as ended with "Courts loaded".
Loaded(s) == scanOutcome' = [scanOutcome EXCEPT ![s] = "loaded"]

\* The "Checking availability" toast is up.  Without slots the loop is skipped:
\* return when cancelled, else finish.  With slots the first batch is started.
AfterCheckingToast(s) ==
    /\ spc[s] = "checkingToast"
    /\ IF Len(slots[s]) = 0
       THEN /\ IF isCancelled[s]
               THEN /\ spc' = [spc EXCEPT ![s] = "returned"]
                    /\ UNCHANGED <<results, isLoading, scanOutcome>>
               ELSE Finish(s, results) /\ Loaded(s)
            /\ UNCHANGED <<batchStart, inflight, batchResults, issued, probed,
                           probedAfterCancel, sugInflight>>
       ELSE /\ StartBatch(s, 0)
            /\ UNCHANGED <<results, isLoading, scanOutcome>>
    /\ UNCHANGED <<notScan, answerOf, outOfOrder, authFailed, isCancelled, slots, allSuggestedTimes,
                   newTimesToFetch, sugIndex, merged, wroteAfterCancel>>

\* searchCourts answers for index i.
ProbeDone(s, i) ==
    /\ i \in inflight[s]
    /\ \E answer \in SearchCourtsAnswers :
          /\ batchResults' = [batchResults EXCEPT
                                ![s] = (i :> answer.availability) @@ @]
          /\ answerOf' = IF isCancelled[s]
                         THEN answerOf
                         ELSE [answerOf EXCEPT ![s] = (i :> answer.availability) @@ @]
          /\ authFailed' = [authFailed EXCEPT
                              ![s] = ~isCancelled[s] /\ (@ \/ ~answer.tokens)]
    /\ outOfOrder' = [outOfOrder EXCEPT
                        ![s] = ~isCancelled[s] /\ (@ \/ \E j \in inflight[s] : j < i)]
    /\ inflight' = [inflight EXCEPT ![s] = @ \ {i}]
    /\ UNCHANGED <<notScan, scanOutcome, results, isLoading, spc, isCancelled, slots,
                   batchStart, allSuggestedTimes, newTimesToFetch, sugIndex,
                   issued, merged, probed, probedAfterCancel, wroteAfterCancel,
                   sugInflight>>

\* Promise.all resolved: return when cancelled; else collect the suggested
\* times and merge the answers into `results`.  Then the 200 ms delay when
\* slots remain; after the last batch the suggested times that are no
\* candidates are kept and their toast is shown, or, without any, the scan
\* finishes.
BatchDone(s) ==
    /\ spc[s] = "batch"
    /\ BatchSettled(s)
    /\ IF isCancelled[s]
       THEN /\ spc' = [spc EXCEPT ![s] = "returned"]
            /\ Forget(s)
            /\ UNCHANGED <<results, isLoading>>
       ELSE LET suggested == CollectSuggested(allSuggestedTimes[s], batchResults[s],
                                              DOMAIN batchResults[s])
                rs == MergeBatch(results, batchResults[s])
                new == NewTimes(suggested, slots[s])
            IN /\ allSuggestedTimes' = [allSuggestedTimes EXCEPT ![s] = suggested]
               /\ merged' = [merged EXCEPT ![s] = @ \cup DOMAIN batchResults[s]]
               /\ UNCHANGED <<slots, batchStart, inflight, batchResults, sugIndex,
                              issued, probed, answerOf, outOfOrder, authFailed,
                              sugInflight>>
               /\ IF BatchEnd(s) < Len(slots[s])
                  THEN /\ results' = rs
                       /\ spc' = [spc EXCEPT ![s] = "batchDelay"]
                       /\ UNCHANGED <<isLoading, scanOutcome, newTimesToFetch>>
                  ELSE IF Len(new) > 0
                       THEN /\ results' = rs
                            /\ newTimesToFetch' = [newTimesToFetch EXCEPT ![s] = new]
                            /\ spc' = [spc EXCEPT ![s] = "suggestedToast"]
                            /\ UNCHANGED <<isLoading, scanOutcome>>
                       ELSE /\ Finish(s, rs)
                            /\ Loaded(s)
                            /\ UNCHANGED newTimesToFetch
    /\ UNCHANGED <<notScan, isCancelled, probedAfterCancel, wroteAfterCancel>>

\* The 200 ms between two batches are over: the next batch is started.
BatchDelayOver(s) ==
    /\ spc[s] = "batchDelay"
    /\ StartBatch(s, batchStart[s] + BatchSize)
    /\ UNCHANGED <<notScan, answerOf, outOfOrder, authFailed, scanOutcome, results, isLoading, isCancelled, slots,
                   allSuggestedTimes, newTimesToFetch, sugIndex, merged,
                   wroteAfterCancel>>

\* The "Checking additional slots" toast is up: the suggested slots are added
\* to `results`; the loop over them returns when cancelled and else probes the
\* first.
AfterSuggestedToast(s) ==
    /\ spc[s] = "suggestedToast"
    /\ results' = AddSuggested(results, s, newTimesToFetch[s])
    /\ Writes(s)
    /\ IF isCancelled[s]
       THEN /\ spc' = [spc EXCEPT ![s] = "returned"]
            /\ Forget(s)
            /\ UNCHANGED probedAfterCancel
       ELSE /\ sugIndex' = [sugIndex EXCEPT ![s] = 1]
            /\ ProbesSuggested(s, newTimesToFetch[s][1])
            /\ spc' = [spc EXCEPT ![s] = "suggestedProbe"]
            /\ UNCHANGED <<slots, batchStart, inflight, batchResults,
                           allSuggestedTimes, newTimesToFetch, issued, merged,
                           answerOf, outOfOrder, authFailed, scanOutcome>>
    /\ UNCHANGED <<notScan, isLoading, isCancelled>>

\* searchCourts answers for the suggested time: its entry is updated unless
\* cancelled; then the 100 ms delay.
SuggestedProbeDone(s) ==
    /\ spc[s] = "suggestedProbe"
    /\ \E answer \in SearchCourtsAnswers :
          /\ authFailed' = [authFailed EXCEPT
                              ![s] = ~isCancelled[s] /\ (@ \/ ~answer.tokens)]
          /\ results' = IF isCancelled[s]
                        THEN results
                        ELSE SetByTime(results, newTimesToFetch[s][sugIndex[s]],
                                       answer.availability)
    /\ sugInflight' = [sugInflight EXCEPT
                          ![s] = @ \ {newTimesToFetch[s][sugIndex[s]]}]
    /\ spc' = [spc EXCEPT ![s] = "suggestedDelay"]
    /\ UNCHANGED <<notScan, answerOf, outOfOrder, scanOutcome, isLoading, isCancelled, slots, batchStart, inflight,
                   batchResults, allSuggestedTimes, newTimesToFetch, sugIndex,
                   issued, merged, probed, probedAfterCancel, wroteAfterCancel>>

\* The 100 ms are over: the next suggested time is probed (return when
\* cancelled); after the last one the scan finishes.
SuggestedDelayOver(s) ==
    /\ spc[s] = "suggestedDelay"
    /\ IF sugIndex[s] < Len(newTimesToFetch[s])
       THEN /\ IF isCancelled[s]
               THEN /\ spc' = [spc EXCEPT ![s] = "returned"]
                    /\ Forget(s)
                    /\ UNCHANGED probedAfterCancel
               ELSE /\ sugIndex' = [sugIndex EXCEPT ![s] = @ + 1]
                    /\ ProbesSuggested(s, newTimesToFetch[s][sugIndex[s] + 1])
                    /\ spc' = [spc EXCEPT ![s] = "suggestedProbe"]
                    /\ UNCHANGED <<slots, batchStart, inflight, batchResults,
                                   allSuggestedTimes, newTimesToFetch, issued,
                                   merged, answerOf, outOfOrder, authFailed,
                                   scanOutcome>>
            /\ UNCHANGED <<results, isLoading, wroteAfterCancel>>
       ELSE /\ Finish(s, results)
            /\ Writes(s)
            /\ IF isCancelled[s]
               THEN Forget(s)
               ELSE /\ Loaded(s)
                    /\ UNCHANGED <<slots, batchStart, inflight, batchResults,
                                   allSuggestedTimes, newTimesToFetch, sugIndex,
                                   issued, merged, probed, answerOf, outOfOrder,
                                   authFailed, sugInflight>>
            /\ UNCHANGED probedAfterCancel
    /\ UNCHANGED <<notScan, isCancelled>>

ScanNext ==
    \E s \in Scans :
        \/ RunEffect(s)
        \/ SelectedDateChanged(s)
        \/ Unmount(s)
        \/ AfterLoadingToast(s)
        \/ TimeSlotsFetched(s)
        \/ AfterCheckingToast(s)
        \/ \E i \in 1..NSlots : ProbeDone(s, i)
        \/ BatchDone(s)
        \/ BatchDelayOver(s)
        \/ AfterSuggestedToast(s)
        \/ SuggestedProbeDone(s)
        \/ SuggestedDelayOver(s)

\* One run of the effect: CourtsForDate is mounted, and may be unmounted.
ScanOneNext ==
    \/ RunEffect(1)
    \/ Unmount(1)
    \/ AfterLoadingToast(1)
    \/ TimeSlotsFetched(1)
    \/ AfterCheckingToast(1)
    \/ \E i \in 1..NSlots : ProbeDone(1, i)
    \/ BatchDone(1)
    \/ BatchDelayOver(1)
    \/ AfterSuggestedToast(1)
    \/ SuggestedProbeDone(1)
    \/ SuggestedDelayOver(1)

(***************************************************************************)
(* Slot Cache: src/src/services/api.ts (fetchTimeSlots, parseTimeSlots)    *)
(***************************************************************************)
Fetchers == 1..NFetchers
Units == 1..NUnits
\* The dates of the calls, as day numbers: two of them a week apart.
Dates == {0, 1, 7}

\* date.getDay()
DayOfWeek(date) == date % 7
\* A key made of the unit and the date itself.
CacheKeyByDate(unitId, date) == <<"timeslots", unitId, date>>
\* `timeslots_${unitId}_${dayOfWeek}`
CacheKey(unitId, date) == <<"timeslots", unitId, DayOfWeek(date)>>
CacheKeys == {CacheKey(u, d) : u \in Units, d \in Dates}

\* The unit and weekday a call is about.
UnitDay(unitId, date) == <<unitId, date % 7>>
UnitDays == {UnitDay(u, d) : u \in Units, d \in Dates}
\* No 2xx answer yet.
NoList == <<NoTime>>

\* JSON.stringify / JSON.parse of a string[].
JSONStringify(list) == <<"json", list>>
JSONParse(text) == text[2]

\* Cache.get of a key that is not there.
NoEntry == <<>>
\* timeSlotsCache.has(cacheKey) and the value is truthy.
CacheHas(cache, key) == cache[key] # NoEntry
\* A set that leaves out the text of an empty list.
CacheSetNonEmpty(cache, key, value) ==
    IF JSONParse(value) = <<>> THEN cache ELSE [cache EXCEPT ![key] = value]
\* timeSlotsCache.set(cacheKey, value), and a set that gets lost.
CacheSetLost(cache, key, value) == cache
CacheSet(cache, key, value) == [cache EXCEPT ![key] = value]

\* allSlots.push(time) unless allSlots.includes(time), for every match.
RECURSIVE AllSlots(_, _)
AllSlots(acc, matches) ==
    IF matches = <<>>
    THEN acc
    ELSE AllSlots(IF Head(matches) \in Range(acc) THEN acc
                  ELSE Append(acc, Head(matches)),
                  Tail(matches))

\* parseTimeSlots, from the HH:MM values the response holds: full hours are
\* kept, a half hour is kept when the next full hour is not in the list, any
\* other time is dropped.
ParseTimeSlotsFullHoursOnly(matches) ==
    LET full(slot) == slot % 60 = 0 IN SelectSeq(AllSlots(<<>>, matches), full)
ParseTimeSlots(matches) ==
    LET allSlots == AllSlots(<<>>, matches)
        keep(slot) == \/ slot % 60 = 0
                      \/ slot % 60 = 30 /\ (slot + 30) \notin Range(allSlots)
    IN SelectSeq(allSlots, keep)

\* The HH:MM values a 2xx answer of the hours endpoint can hold.
HoursBodies == {<<>>, <<Time(8, 0), Time(8, 30), Time(9, 0)>>}
\* What getAuthTokens can return to fetchTimeSlots.
PortalTokens == {AuthTokens(TokenItem(n, "fresh"), SessionItem(n)) : n \in 1..2}

CacheInit ==
    /\ timeSlotsCache = [k \in CacheKeys |-> NoEntry]
    /\ fpc = [p \in Fetchers |-> "idle"]
    /\ fUnit = [p \in Fetchers |-> 1]
    /\ fDate = [p \in Fetchers |-> 0]
    /\ fTokens = [p \in Fetchers |-> NullTokens]
    /\ fRet = [p \in Fetchers |-> <<>>]
    /\ fetches = 0
    /\ clears = 0
    /\ hoursRequests = [k \in CacheKeys |-> 0]
    /\ answered = [k \in CacheKeys |-> FALSE]
    /\ fAfterAnswer = [p \in Fetchers |-> FALSE]
    /\ fRequested = [p \in Fetchers |-> FALSE]
    /\ lastAnswer = [k \in UnitDays |-> NoList]
    /\ fSeen = [p \in Fetchers |-> NoList]
    /\ fOutcome = [p \in Fetchers |-> "none"]

\* fetchTimeSlots returns `list`.
FetchReturn(p, list, outcome) ==
    /\ fRet' = [fRet EXCEPT ![p] = list]
    /\ fOutcome' = [fOutcome EXCEPT ![p] = outcome]
    /\ fpc' = [fpc EXCEPT ![p] = "returned"]

\* fetchTimeSlots(unitId, date, credentials) up to its first await: a cache
\* hit returns the parsed entry, a miss calls getAuthTokens.
FetchTimeSlots(p, unitId, date) ==
    /\ fpc[p] \in {"idle", "returned"}
    /\ fetches < MaxFetches
    /\ fetches' = fetches + 1
    /\ fUnit' = [fUnit EXCEPT ![p] = unitId]
    /\ fDate' = [fDate EXCEPT ![p] = date]
    /\ fTokens' = [fTokens EXCEPT ![p] = NullTokens]
    /\ fAfterAnswer' = [fAfterAnswer EXCEPT ![p] = answered[CacheKey(unitId, date)]]
    /\ fRequested' = [fRequested EXCEPT ![p] = FALSE]
    /\ fSeen' = [fSeen EXCEPT ![p] = lastAnswer[UnitDay(unitId, date)]]
    /\ IF CacheHas(timeSlotsCache, CacheKey(unitId, date))
       THEN FetchReturn(p, JSONParse(timeSlotsCache[CacheKey(unitId, date)]), "hit")
       ELSE /\ fpc' = [fpc EXCEPT ![p] = "getAuthTokens"]
            /\ fRet' = [fRet EXCEPT ![p] = <<>>]
            /\ fOutcome' = [fOutcome EXCEPT ![p] = "none"]
    /\ UNCHANGED <<notCache, timeSlotsCache, clears, hoursRequests, answered,
                   lastAnswer>>

\* getAuthTokens answered: without tokens the catch returns []; with tokens
\* the POST to set_time_by_unit is sent.
FetchTimeSlots_GetAuthTokens(p) ==
    /\ fpc[p] = "getAuthTokens"
    /\ \E t \in PortalTokens \cup {NullTokens} :
          IF t = NullTokens
          THEN /\ FetchReturn(p, <<>>, "noTokens")
               /\ UNCHANGED <<fTokens, hoursRequests, fRequested>>
          ELSE /\ fTokens' = [fTokens EXCEPT ![p] = t]
               /\ hoursRequests' =
                     [hoursRequests EXCEPT ![CacheKey(fUnit[p], fDate[p])] = @ + 1]
               /\ fRequested' = [fRequested EXCEPT ![p] = TRUE]
               /\ fpc' = [fpc EXCEPT ![p] = "fetch"]
               /\ UNCHANGED <<fRet, fOutcome>>
    /\ UNCHANGED <<notCache, timeSlotsCache, fUnit, fDate, fetches, clears,
                   answered, fAfterAnswer, lastAnswer, fSeen>>

\* fetch answered (or threw): anything but a 2xx status ends in the catch,
\* which returns []; a 2xx status goes on to response.text().
FetchTimeSlots_Fetch(p) ==
    /\ fpc[p] = "fetch"
    /\ \E status \in {"2xx", "other", "error"} :
          IF status = "2xx"
          THEN /\ fpc' = [fpc EXCEPT ![p] = "text"]
               /\ UNCHANGED <<fRet, fOutcome>>
          ELSE FetchReturn(p, <<>>, "failed")
    /\ UNCHANGED <<notCache, timeSlotsCache, fUnit, fDate, fTokens, fetches,
                   clears, hoursRequests, answered, fAfterAnswer, fRequested,
                   lastAnswer, fSeen>>

\* response.text() answered: the slots are parsed, cached and returned.
FetchTimeSlots_Text(p) ==
    /\ fpc[p] = "text"
    /\ \E body \in HoursBodies :
          /\ timeSlotsCache' = CacheSet(timeSlotsCache, CacheKey(fUnit[p], fDate[p]),
                                        JSONStringify(ParseTimeSlots(body)))
          /\ FetchReturn(p, ParseTimeSlots(body), "2xx")
          /\ lastAnswer' = [lastAnswer EXCEPT ![UnitDay(fUnit[p], fDate[p])] =
                                ParseTimeSlots(body)]
    /\ answered' = [answered EXCEPT ![CacheKey(fUnit[p], fDate[p])] = TRUE]
    /\ UNCHANGED <<notCache, fUnit, fDate, fTokens, fetches, clears,
                   hoursRequests, fAfterAnswer, fRequested, fSeen>>

\* response.text() threw: the catch returns [].
FetchTimeSlots_TextFailed(p) ==
    /\ fpc[p] = "text"
    /\ FetchReturn(p, <<>>, "failed")
    /\ UNCHANGED <<notCache, timeSlotsCache, fUnit, fDate, fTokens, fetches,
                   clears, hoursRequests, answered, fAfterAnswer, fRequested,
                   lastAnswer, fSeen>>

\* The user clears the cache of the extension (no code of the extension does).
ClearCache ==
    /\ clears < MaxClears
    /\ clears' = clears + 1
    /\ timeSlotsCache' = [k \in CacheKeys |-> NoEntry]
    /\ hoursRequests' = [k \in CacheKeys |-> 0]
    /\ answered' = [k \in CacheKeys |-> FALSE]
    /\ lastAnswer' = [k \in UnitDays |-> NoList]
    /\ UNCHANGED <<notCache, fpc, fUnit, fDate, fTokens, fRet, fetches,
                   fAfterAnswer, fRequested, fSeen, fOutcome>>

CacheNext ==
    \/ \E p \in Fetchers :
          \/ \E unitId \in Units : \E date \in Dates : FetchTimeSlots(p, unitId, date)
          \/ FetchTimeSlots_GetAuthTokens(p)
          \/ FetchTimeSlots_Fetch(p)
          \/ FetchTimeSlots_Text(p)
          \/ FetchTimeSlots_TextFailed(p)
    \/ ClearCache

(***************************************************************************)
(* The consolidation of fetchCourts, applied to a list of its own.         *)
(***************************************************************************)
\* longest list given to the consolidation
MaxList == 5

\* What an entry that is not loading can hold.
LoadedAvailabilities ==
    {NullAvailability, [status |-> "available", suggestedTimes |-> <<>>],
     [status |-> "no-courts", suggestedTimes |-> <<>>]}
\* Lists in time order, 08:00, 09:00, ..., of entries that are not loading.
LoadedLists ==
    UNION {[1..n -> LoadedAvailabilities] : n \in 0..MaxList}
ListOf(avs, loading) ==
    [i \in 1..Len(avs) |->
        IF i = loading
        THEN Entry(1, Time(7 + i, 0), NullAvailability, TRUE)
        ELSE Entry(1, Time(7 + i, 0), avs[i], FALSE)]
\* The lists the last update sees: all loaded, or one entry still loading.
ConsolidateInputs ==
    {ListOf(avs, loading) : avs \in LoadedLists, loading \in 0..MaxList}

ConsolidateInit ==
    /\ cIn \in ConsolidateInputs
    /\ cOut = <<>> /\ cDone = FALSE
    /\ cAgain = <<>> /\ cTwice = FALSE
ConsolidateOff ==
    /\ cIn = <<>>
    /\ cOut = <<>> /\ cDone = FALSE
    /\ cAgain = <<>> /\ cTwice = FALSE

\* The updater of the last setResults runs on cIn.
ConsolidateRun ==
    /\ ~cDone
    /\ cOut' = Consolidate(cIn)
    /\ cDone' = TRUE
    /\ UNCHANGED <<notPure, cIn, cAgain, cTwice, pIn, pOut, pDone, pNoCourts>>

\* The updater runs once more, on the list it returned.
ConsolidateRunAgain ==
    /\ cDone /\ ~cTwice
    /\ cAgain' = Consolidate(cOut)
    /\ cTwice' = TRUE
    /\ UNCHANGED <<notPure, cIn, cOut, cDone, pIn, pOut, pDone, pNoCourts>>

ConsolidateNext == ConsolidateRun \/ ConsolidateRunAgain

(***************************************************************************)
(* parseCourtAvailability (utils/date.ts), applied to a response text.     *)
(* A text is modelled by what the parser's patterns find in it: whether    *)
(* the jQuery('#step-2').html('...') injection is there, which marker      *)
(* strings the injected html contains, the court numbers of its            *)
(* court-selection rows in document order, and the start times of its h3   *)
(* headers.                                                                *)
(***************************************************************************)
\* most court-selection rows in a response
MaxRows == 3
\* court numbers a row can carry
NCourts == 2

CourtNumbers == 1..NCourts
\* "alert-success", "מועדים אחרים", "alert-danger", "נסה מועד אחר"
MarkerStrings == {"alert-success", "otherTimes", "alert-danger", "tryAnotherTime"}
RowLists == UNION {[1..n -> CourtNumbers] : n \in 0..MaxRows}
HeaderLists == {<<>>, <<Time(10, 0), Time(9, 0), Time(10, 0)>>}
Htmls == [markers : SUBSET MarkerStrings, rows : RowLists, h3 : HeaderLists]
\* The empty string.
EmptyHtml == [markers |-> {}, rows |-> <<>>, h3 |-> <<>>]
\* A response: with the injection its html is what the injection carries,
\* without it the html field is text the pattern does not capture.
Responses == [injected : BOOLEAN, html : Htmls]

\* extractHtmlFromResponse: the captured html, "" without a match.
ExtractHtmlFromResponse(response) ==
    IF response.injected THEN response.html ELSE EmptyHtml

\* isNoCourtsAvailable without its first test
IsNoCourtsAvailableByAnyMarker(html) ==
    \/ "otherTimes" \in html.markers
    \/ "alert-danger" \in html.markers
    \/ "tryAnotherTime" \in html.markers

\* isNoCourtsAvailable
IsNoCourtsAvailable(html) ==
    IF "alert-success" \in html.markers
    THEN FALSE
    ELSE \/ "otherTimes" \in html.markers
         \/ "alert-danger" \in html.markers
         \/ "tryAnotherTime" \in html.markers

\* parseCourtSlots: one CourtSlot per row, in document order.
ParseCourtSlots(html) ==
    [i \in 1..Len(html.rows) |-> [courtNumber |-> html.rows[i]]]

\* parseSuggestedTimes: the start times of the headers, each once, in order.
ParseSuggestedTimes(html) == AddAll(<<>>, html.h3)

\* [...new Set(numbers)]: first occurrences, in order.
Unique(numbers) == AddAll(<<>>, numbers)

RECURSIVE InsertNumber(_, _)
InsertNumber(sorted, n) ==
    IF sorted = <<>>
    THEN <<n>>
    ELSE IF n < Head(sorted)
         THEN <<n>> \o sorted
         ELSE <<Head(sorted)>> \o InsertNumber(Tail(sorted), n)

\* .sort((a, b) => a - b) left as it found the list
SortAscendingSkipped(numbers) == numbers

\* .sort((a, b) => a - b)
RECURSIVE SortAscending(_)
SortAscending(numbers) ==
    IF numbers = <<>>
    THEN <<>>
    ELSE InsertNumber(SortAscending(Tail(numbers)), Head(numbers))

\* A CourtAvailability; suggestedTimes undefined is <<>>.
CourtAvailability(st, courtNumbers, courtSlots, times) ==
    [status |-> st, courts |-> courtNumbers, slots |-> courtSlots,
     suggestedTimes |-> times]
NoResult == CourtAvailability("none", <<>>, <<>>, <<>>)

\* parseCourtAvailability
ParseCourtAvailability(response) ==
    LET html == ExtractHtmlFromResponse(response)
        courtSlots == ParseCourtSlots(html)
        courts == SortAscending(Unique([i \in 1..Len(courtSlots) |-> courtSlots[i].courtNumber]))
    IN IF IsNoCourtsAvailable(html)
       THEN CourtAvailability("no-courts", <<>>, <<>>, ParseSuggestedTimes(html))
       ELSE IF Len(courtSlots) = 0
            THEN CourtAvailability("no-courts", <<>>, <<>>, <<>>)
            ELSE CourtAvailability("available", courts, courtSlots, <<>>)

ParseInit ==
    pIn \in Responses /\ pOut = NoResult /\ pDone = FALSE /\ pNoCourts = FALSE
ParseOff ==
    /\ pIn = [injected |-> FALSE, html |-> EmptyHtml]
    /\ pOut = NoResult /\ pDone = FALSE /\ pNoCourts = FALSE

\* parseCourtAvailability is called with pIn.
ParseRun ==
    /\ ~pDone
    /\ pOut' = ParseCourtAvailability(pIn)
    /\ pNoCourts' = IsNoCourtsAvailable(ExtractHtmlFromResponse(pIn))
    /\ pDone' = TRUE
    /\ UNCHANGED <<notPure, cIn, cOut, cDone, cAgain, cTwice, pIn>>

ParseNext == ParseRun

(***************************************************************************)
(* The half-hour filters: parseTimeSlots (services/api.ts) and             *)
(* generateTimeSlotsForDate (utils/date.ts), applied to a list of HH:MM    *)
(* values.  A value is its number of minutes: "HH:30" ends with ":30" when *)
(* its minutes are 30, and the "(HH+1):00" the code builds from it is the  *)
(* value 30 minutes later.                                                 *)
(***************************************************************************)
\* longest list of HH:MM values given to the filters
MaxHours == 3

\* The values a list can hold: full hours, half hours and a quarter.
HourValues == {Time(8, 0), Time(8, 30), Time(9, 0), Time(9, 30), Time(8, 15)}
HourLists == UNION {[1..n -> HourValues] : n \in 0..MaxHours}
\* new Date(): the date is today or not, at 07:10, 07:45, 08:10 or 08:45.
Nows == [isToday : BOOLEAN, currentHour : {7, 8}, currentMinute : {10, 45}]

FilterInit ==
    /\ tIn \in HourLists
    /\ tNow \in Nows
    /\ tParsed = <<>>
    /\ tSlots = <<>>
    /\ tDone = {}
FilterOff ==
    /\ tIn = <<>>
    /\ tNow = [isToday |-> FALSE, currentHour |-> 7, currentMinute |-> 10]
    /\ tParsed = <<>>
    /\ tSlots = <<>>
    /\ tDone = {}

\* parseTimeSlots is called on a text that holds the values tIn.
ParseTimeSlotsRun ==
    /\ "parseTimeSlots" \notin tDone
    /\ tParsed' = ParseTimeSlots(tIn)
    /\ tDone' = tDone \cup {"parseTimeSlots"}
    /\ UNCHANGED <<notFilter, tIn, tNow, tSlots>>

\* generateTimeSlotsForDate is called with tIn as availableTimeSlots.
GenerateTimeSlotsForDateRun ==
    /\ "generateTimeSlotsForDate" \notin tDone
    /\ tSlots' = GenerateTimeSlotsForDate(1, tIn, tNow)
    /\ tDone' = tDone \cup {"generateTimeSlotsForDate"}
    /\ UNCHANGED <<notFilter, tIn, tNow, tParsed>>

FilterNext == ParseTimeSlotsRun \/ GenerateTimeSlotsForDateRun

(***************************************************************************)
(* extractHtmlFromResponse (utils/date.ts) on the characters of a response.*)
(* A text is a sequence of characters; "NL" is the newline, "DQ" the       *)
(* double quote, "SQ" the single quote, "BS" the backslash, "SL" the       *)
(* slash, and "PRE" stands for the whole of jQuery('#step-2').html( .      *)
(***************************************************************************)
\* longest html fragment, in characters
MaxFragment == 3

FragmentChars == {"a", "n", "NL", "DQ", "SL", "BS", "SQ", ")", ";"}
Fragments == UNION {[1..n -> FragmentChars] : n \in 0..MaxFragment}

\* The portal's escaping of the fragment: \n for a newline, \" and \/.
EscapeChar(c) ==
    CASE c = "NL" -> <<"BS", "n">>
      [] c = "DQ" -> <<"BS", "DQ">>
      [] c = "SL" -> <<"BS", "SL">>
      [] OTHER -> <<c>>
RECURSIVE Escape(_)
Escape(text) ==
    IF text = <<>> THEN <<>> ELSE EscapeChar(Head(text)) \o Escape(Tail(text))
\* jQuery('#step-2').html('...');
Inject(escaped) == <<"PRE", "SQ">> \o escaped \o <<"SQ", ")", ";">>

\* text.replace(/ab/g, with) for a pattern of the two characters a, b.
RECURSIVE ReplaceAll(_, _, _, _)
ReplaceAll(text, a, b, with) ==
    IF Len(text) < 2
    THEN text
    ELSE IF text[1] = a /\ text[2] = b
         THEN with \o ReplaceAll(SubSeq(text, 3, Len(text)), a, b, with)
         ELSE <<text[1]>> \o ReplaceAll(Tail(text), a, b, with)

\* Where the pattern can start, and where '); follows a start.
MatchStarts(text) ==
    {i \in 1..(Len(text) - 1) : text[i] = "PRE" /\ text[i + 1] = "SQ"}
MatchEnds(text, i) ==
    {j \in (i + 2)..(Len(text) - 2) :
        text[j] = "SQ" /\ text[j + 1] = ")" /\ text[j + 2] = ";"}
\* extractHtmlFromResponse: the first match with the shortest capture, then
\* the three replacements; "" without a match.
ExtractHtmlFromResponseText(response) ==
    LET starts == {i \in MatchStarts(response) : MatchEnds(response, i) # {}}
    IN IF starts = {}
       THEN <<>>
       ELSE LET i == CHOOSE x \in starts : \A y \in starts : x <= y
                j == CHOOSE x \in MatchEnds(response, i) :
                         \A y \in MatchEnds(response, i) : x <= y
                captured == SubSeq(response, i + 2, j - 1)
            IN ReplaceAll(ReplaceAll(ReplaceAll(captured, "BS", "n", <<>>),
                                     "BS", "DQ", <<"DQ">>),
                          "BS", "SL", <<"SL">>)

ExtractInit == eIn \in Fragments /\ eOut = <<>> /\ eDone = FALSE
ExtractOff == eIn = <<>> /\ eOut = <<>> /\ eDone = FALSE

\* The portal answers with the escaped fragment injected, and the response is
\* given to extractHtmlFromResponse.
ExtractRun ==
    /\ ~eDone
    /\ eOut' = ExtractHtmlFromResponseText(Inject(Escape(eIn)))
    /\ eDone' = TRUE
    /\ UNCHANGED <<notExtract, eIn>>

ExtractNext == ExtractRun

(***************************************************************************)
(* The operations that use the session: searchCourts, fetchTimeSlots,      *)
(* fetchMyRents, cancelRent, selectCourt (services/api.ts) and             *)
(* launchBrowser (services/puppeteer.ts), as far as getAuthTokens and the  *)
(* _session_id they send are concerned.                                    *)
(***************************************************************************)
\* operations that can run at the same time
NOperations == 2
\* operations started in one behaviour
MaxOperations == 3

Operations == 1..NOperations
FetchOperations ==
    {"searchCourts", "fetchTimeSlots", "fetchMyRents", "cancelRent", "selectCourt"}
OperationKinds == FetchOperations \cup {"launchBrowser"}

ApiInit ==
    /\ opc = [o \in Operations |-> "idle"]
    /\ oKind = [o \in Operations |-> "none"]
    /\ oHit = [o \in Operations |-> FALSE]
    /\ oAuthCalls = [o \in Operations |-> 0]
    /\ oTokens = [o \in Operations |-> NullTokens]
    /\ oSent = [o \in Operations |-> <<>>]
    /\ ops = 0

\* The operation sends `tokens.sessionId` as _session_id: the Cookie header of
\* its fetch, or the cookie given to the browser.
SendsSession(o, tok) ==
    oSent' = [oSent EXCEPT ![o] = Append(@, tok.sessionId)]

\* An operation is called: fetchTimeSlots returns a cache hit at once, every
\* other call awaits getAuthTokens first.
ApiCall(o, kind, hit) ==
    /\ opc[o] \in {"idle", "returned"}
    /\ ops < MaxOperations
    /\ ops' = ops + 1
    /\ oKind' = [oKind EXCEPT ![o] = kind]
    /\ oHit' = [oHit EXCEPT ![o] = hit /\ kind = "fetchTimeSlots"]
    /\ oTokens' = [oTokens EXCEPT ![o] = NullTokens]
    /\ oSent' = [oSent EXCEPT ![o] = <<>>]
    /\ IF hit /\ kind = "fetchTimeSlots"
       THEN /\ opc' = [opc EXCEPT ![o] = "returned"]
            /\ oAuthCalls' = [oAuthCalls EXCEPT ![o] = 0]
       ELSE /\ opc' = [opc EXCEPT ![o] = "getAuthTokens"]
            /\ oAuthCalls' = [oAuthCalls EXCEPT ![o] = 1]
    /\ UNCHANGED notApi

\* getAuthTokens answered and the request goes out whatever it answered.
ApiGetAuthTokensUnchecked(o) ==
    /\ opc[o] = "getAuthTokens"
    /\ \E tok \in PortalTokens \cup {NullTokens} :
          /\ oTokens' = [oTokens EXCEPT ![o] = tok]
          /\ SendsSession(o, tok)
    /\ opc' = [opc EXCEPT ![o] = "fetch"]
    /\ UNCHANGED <<notApi, oKind, oHit, oAuthCalls, ops>>

\* getAuthTokens answered: null throws into the catch of the operation, which
\* returns; with tokens the fetch is sent with their sessionId, and
\* launchBrowser goes on to puppeteer.launch.
ApiGetAuthTokens(o) ==
    /\ opc[o] = "getAuthTokens"
    /\ \E tok \in PortalTokens \cup {NullTokens} :
          /\ oTokens' = [oTokens EXCEPT ![o] = tok]
          /\ IF tok = NullTokens
             THEN /\ opc' = [opc EXCEPT ![o] = "returned"]
                  /\ UNCHANGED oSent
             ELSE IF oKind[o] = "launchBrowser"
                  THEN /\ opc' = [opc EXCEPT ![o] = "launch"]
                       /\ UNCHANGED oSent
                  ELSE /\ opc' = [opc EXCEPT ![o] = "fetch"]
                       /\ SendsSession(o, tok)
    /\ UNCHANGED <<notApi, oKind, oHit, oAuthCalls, ops>>

\* The fetch answered or threw: the operation returns.
ApiFetchDone(o) ==
    /\ opc[o] = "fetch"
    /\ opc' = [opc EXCEPT ![o] = "returned"]
    /\ UNCHANGED <<notApi, oKind, oHit, oAuthCalls, oTokens, oSent, ops>>

\* puppeteer.launch and browser.newPage answered: the cookie is set with the
\* sessionId of the tokens; a throw ends in the catch of launchBrowser.
ApiLaunched(o) ==
    /\ opc[o] = "launch"
    /\ \E ok \in BOOLEAN :
          IF ok
          THEN /\ opc' = [opc EXCEPT ![o] = "setCookie"]
               /\ SendsSession(o, oTokens[o])
          ELSE /\ opc' = [opc EXCEPT ![o] = "returned"]
               /\ UNCHANGED oSent
    /\ UNCHANGED <<notApi, oKind, oHit, oAuthCalls, oTokens, ops>>

\* browser.setCookie answered or threw: launchBrowser returns.
ApiCookieSet(o) ==
    /\ opc[o] = "setCookie"
    /\ opc' = [opc EXCEPT ![o] = "returned"]
    /\ UNCHANGED <<notApi, oKind, oHit, oAuthCalls, oTokens, oSent, ops>>

ApiNext ==
    \E o \in Operations :
        \/ \E kind \in OperationKinds : \E hit \in BOOLEAN : ApiCall(o, kind, hit)
        \/ ApiGetAuthTokens(o)
        \/ ApiFetchDone(o)
        \/ ApiLaunched(o)
        \/ ApiCookieSet(o)

(***************************************************************************)
(* fillStep1 and selectCourtInStep2 (services/puppeteer.ts) on the page    *)
(* they find.  An option value "HH:MM" is the tuple of its four digits, so *)
(* that the comparison of strings is the comparison of the code; a court   *)
(* id is the tuple of its decimal digits, so that href.includes of         *)
(* `court_id=${id}` is what it is on the text of the href.                 *)
(***************************************************************************)
\* most options of #search_start_hour
MaxOptions == 3
\* most a.btn-choose links in the list
MaxLinks == 2

\* "HH:MM" and the value "" of a prompt option.
HourString(h, m) == <<h \div 10, h % 10, m \div 10, m % 10>>
EmptyString == <<>>
OptionValues == {EmptyString, HourString(8, 0), HourString(9, 0), HourString(10, 0)}
OptionLists == UNION {[1..n -> OptionValues] : n \in 0..MaxOptions}
\* The court ids 11, 112 and 25.
CourtIds == {<<1, 1>>, <<1, 1, 2>>, <<2, 5>>}
\* The court_id values of the hrefs of the links, in document order.
LinkLists ==
    {ls \in UNION {[1..n -> CourtIds] : n \in 0..MaxLinks} :
        \A i, j \in DOMAIN ls : ls[i] = ls[j] => i = j}
\* Where the page can let fillStep1 down: no form, no enabled submit button,
\* no result list after the click.
PageFailures == {"none", "form", "submit", "results"}

\* a < b for two strings
RECURSIVE StringLess(_, _)
StringLess(a, b) ==
    IF b = <<>> THEN FALSE
    ELSE IF a = <<>> THEN TRUE
    ELSE IF Head(a) # Head(b) THEN Head(a) < Head(b)
    ELSE StringLess(Tail(a), Tail(b))

\* values.slice().sort(...)[0] ?? null
NoHour == <<-1>>
FirstSorted(values) ==
    IF values = <<>>
    THEN NoHour
    ELSE CHOOSE v \in Range(values) : \A w \in Range(values) : ~StringLess(w, v)

\* hourToSelect without the sort: the first of the values when the preferred
\* hour is not among them.
HourToSelectUnsorted(options, preferredHour) ==
    LET nonEmpty(v) == v # EmptyString
        values == SelectSeq(options, nonEmpty)
    IN IF preferredHour # EmptyString /\ preferredHour \in Range(values)
       THEN preferredHour
       ELSE IF values = <<>> THEN NoHour ELSE values[1]

\* hourToSelect of the page.evaluate in fillStep1.
HourToSelect(options, preferredHour) ==
    LET nonEmpty(v) == v # EmptyString
        values == SelectSeq(options, nonEmpty)
    IN IF preferredHour # EmptyString /\ preferredHour \in Range(values)
       THEN preferredHour
       ELSE FirstSorted(values)

\* href.includes(`court_id=${preferredCourtId}`) for an href whose court_id
\* parameter is courtId and is followed by "&amp;".
HrefIncludesCourtId(courtId, preferredCourtId) ==
    /\ Len(preferredCourtId) <= Len(courtId)
    /\ SubSeq(courtId, 1, Len(preferredCourtId)) = preferredCourtId

\* The position of `target` in the page.evaluate of selectCourtInStep2:
\* buttons.find(...) || buttons[0]; 0 without buttons.
TargetLink(links, preferredCourtId) ==
    LET found == {i \in DOMAIN links : HrefIncludesCourtId(links[i], preferredCourtId)}
    IN IF links = <<>>
       THEN 0
       ELSE IF found # {}
            THEN CHOOSE i \in found : \A j \in found : i <= j
            ELSE 1

NotSeen == [step3 |-> FALSE, ran |-> FALSE]
WizardParams == [startHour : {HourString(9, 0), HourString(10, 0)}, courtId : CourtIds]

WizardInit ==
    /\ wParams \in WizardParams
    /\ wpc = "fillStep1"
    /\ wSeen1 = NotSeen
    /\ wHour = NoHour
    /\ wDid = <<>>
    /\ wSeen2 = NotSeen
    /\ wClicked = 0
WizardOff ==
    /\ wParams = [startHour |-> HourString(9, 0), courtId |-> <<1, 1>>]
    /\ wpc = "off"
    /\ wSeen1 = NotSeen
    /\ wHour = NoHour
    /\ wDid = <<>>
    /\ wSeen2 = NotSeen
    /\ wClicked = 0

\* fillStep1 without the test for #step-3.
FillStep1Body(step3, options, enabled, failure) ==
    LET hour == HourToSelect(options, wParams.startHour)
        waited == Len(options) > 1 /\ enabled
    IN /\ wSeen1' = [step3 |-> step3, ran |-> TRUE, options |-> options,
                     enabled |-> enabled, failure |-> failure]
       /\ IF failure = "form"
          THEN /\ wpc' = "failed"
               /\ UNCHANGED <<wHour, wDid>>
          ELSE IF ~waited \/ hour = NoHour
               THEN /\ wpc' = "failed"
                    /\ wDid' = <<"fill">>
                    /\ UNCHANGED wHour
               ELSE /\ wHour' = hour
                    /\ IF failure = "submit"
                       THEN wDid' = <<"fill", "hour", "duration">> /\ wpc' = "failed"
                       ELSE /\ wDid' = <<"fill", "hour", "duration", "submit">>
                            /\ wpc' = IF failure = "results"
                                      THEN "failed" ELSE "selectCourtInStep2"

\* fillStep1 that fills the form whatever the page shows.
FillStep1Always(step3, options, enabled, failure) ==
    FillStep1Body(step3, options, enabled, failure)

\* fillStep1: true at once when #step-3 shows; else the form is filled, the
\* hour chosen, the duration selected and the form submitted, and any throw
\* (a wait that times out, no hour to select) makes it false.
FillStep1Run(step3, options, enabled, failure) ==
    IF step3
    THEN /\ wSeen1' = [step3 |-> TRUE, ran |-> TRUE, options |-> options,
                       enabled |-> enabled, failure |-> failure]
         /\ wpc' = "selectCourtInStep2"
         /\ UNCHANGED <<wHour, wDid>>
    ELSE FillStep1Body(step3, options, enabled, failure)

FillStep1OnPage ==
    /\ wpc = "fillStep1"
    /\ \E step3 \in BOOLEAN, options \in OptionLists, enabled \in BOOLEAN,
          failure \in PageFailures :
          FillStep1Run(step3, options, enabled, failure)
    /\ UNCHANGED <<notWizard, wParams, wSeen2, wClicked>>

\* selectCourtInStep2: true at once when #step-3 shows; else the link for the
\* court is clicked and step 3 awaited; any throw makes it false.
SelectCourtInStep2OnPage ==
    /\ wpc = "selectCourtInStep2"
    /\ \E step3 \in BOOLEAN, links \in LinkLists, shown \in BOOLEAN :
          /\ wSeen2' = [step3 |-> step3, ran |-> TRUE, links |-> links,
                        shown |-> shown]
          /\ IF step3
             THEN wpc' = "confirmStep3" /\ UNCHANGED wClicked
             ELSE IF TargetLink(links, wParams.courtId) = 0
                  THEN wpc' = "failed" /\ UNCHANGED wClicked
                  ELSE /\ wClicked' = TargetLink(links, wParams.courtId)
                       /\ wpc' = IF shown THEN "confirmStep3" ELSE "failed"
    /\ UNCHANGED <<notWizard, wParams, wSeen1, wHour, wDid>>

WizardNext == FillStep1OnPage \/ SelectCourtInStep2OnPage

(***************************************************************************)
(* Specifications.  The components share no variable: each is checked with *)
(* the others held in their initial state.                                 *)
(***************************************************************************)
\* One caller at a time: no two calls of the Session Manager overlap.
InitAuthSingle == callers = {1} /\ creds = {1} /\ AuthInit /\ BookInit /\ VerifyOff /\ ScanInit /\ CacheInit /\ ConsolidateOff /\ ParseOff /\ FilterOff /\ ExtractOff /\ ApiInit /\ WizardOff
SpecAuthSingle == InitAuthSingle /\ [][AuthNext]_vars

\* One caller whose credentials change between calls (the preferences are
\* edited).
InitAuthCredentials == callers = {1} /\ creds = Credentials /\ AuthInit /\ BookInit /\ VerifyOff /\ ScanInit /\ CacheInit /\ ConsolidateOff /\ ParseOff /\ FilterOff /\ ExtractOff /\ ApiInit /\ WizardOff
SpecAuthCredentials == InitAuthCredentials /\ [][AuthNext]_vars

\* Concurrent callers, as the probes of one batch are.
InitAuth == callers = Callers /\ creds = {1} /\ AuthInit /\ BookInit /\ VerifyOff /\ ScanInit /\ CacheInit /\ ConsolidateOff /\ ParseOff /\ FilterOff /\ ExtractOff /\ ApiInit /\ WizardOff
SpecAuth == InitAuth /\ [][AuthNext]_vars

\* Booking requests of one CourtsList.
InitBooking == AuthOff /\ BookInit /\ VerifyOff /\ ScanInit /\ CacheInit /\ ConsolidateOff /\ ParseOff /\ FilterOff /\ ExtractOff /\ ApiInit /\ WizardOff
SpecBooking == InitBooking /\ [][BookNext]_vars
SpecBookingLive ==
    InitBooking /\ [][BookNext]_vars /\ \A r \in Requests : WF_vars(BookSettles(r))

\* verifyStep4 on every page.
InitVerify == AuthOff /\ BookInit /\ VerifyInit /\ ScanInit /\ CacheInit /\ ConsolidateOff /\ ParseOff /\ FilterOff /\ ExtractOff /\ ApiInit /\ WizardOff
SpecVerify == InitVerify /\ [][VerifyNext]_vars

\* The scans of one CourtsForDate.
InitScan == AuthOff /\ BookInit /\ VerifyOff /\ ScanInit /\ CacheInit /\ ConsolidateOff /\ ParseOff /\ FilterOff /\ ExtractOff /\ ApiInit /\ WizardOff
SpecScan == InitScan /\ [][ScanNext]_vars

\* One scan, run to its end or to its cleanup.
InitScanOne == AuthOff /\ BookInit /\ VerifyOff /\ ScanInit /\ CacheInit /\ ConsolidateOff /\ ParseOff /\ FilterOff /\ ExtractOff /\ ApiInit /\ WizardOff
SpecScanOne == InitScanOne /\ [][ScanOneNext]_vars

\* One scan whose awaits all settle: the effect runs once the component is
\* mounted, every toast, request and delay comes to its end.  The cleanup
\* (Unmount) is up to the user.
ScanOneSettles ==
    \/ RunEffect(1)
    \/ AfterLoadingToast(1)
    \/ TimeSlotsFetched(1)
    \/ AfterCheckingToast(1)
    \/ \E i \in 1..NSlots : ProbeDone(1, i)
    \/ BatchDone(1)
    \/ BatchDelayOver(1)
    \/ AfterSuggestedToast(1)
    \/ SuggestedProbeDone(1)
    \/ SuggestedDelayOver(1)
SpecScanOneLive == InitScanOne /\ [][ScanOneNext]_vars /\ WF_vars(ScanOneSettles)

\* Concurrent calls of fetchTimeSlots and clears of the cache.
InitCache == AuthOff /\ BookInit /\ VerifyOff /\ ScanInit /\ CacheInit /\ ConsolidateOff /\ ParseOff /\ FilterOff /\ ExtractOff /\ ApiInit /\ WizardOff
SpecCache == InitCache /\ [][CacheNext]_vars

\* The consolidation on every list it can be given.
InitConsolidate == AuthOff /\ BookInit /\ VerifyOff /\ ScanInit /\ CacheInit /\ ConsolidateInit /\ ParseOff /\ FilterOff /\ ExtractOff /\ ApiInit /\ WizardOff
SpecConsolidate == InitConsolidate /\ [][ConsolidateNext]_vars

\* parseCourtAvailability on every response.
InitParse == AuthOff /\ BookInit /\ VerifyOff /\ ScanInit /\ CacheInit /\ ConsolidateOff /\ ParseInit /\ FilterOff /\ ExtractOff /\ ApiInit /\ WizardOff
SpecParse == InitParse /\ [][ParseNext]_vars

\* The half-hour filters on every list.
InitFilter == AuthOff /\ BookInit /\ VerifyOff /\ ScanInit /\ CacheInit /\ ConsolidateOff /\ ParseOff /\ FilterInit /\ ExtractOff /\ ApiInit /\ WizardOff
SpecFilter == InitFilter /\ [][FilterNext]_vars

\* extractHtmlFromResponse on every injected fragment.
InitExtract == AuthOff /\ BookInit /\ VerifyOff /\ ScanInit /\ CacheInit /\ ConsolidateOff /\ ParseOff /\ FilterOff /\ ExtractInit /\ ApiInit /\ WizardOff
SpecExtract == InitExtract /\ [][ExtractNext]_vars

\* The operations that use the session.
InitApi == AuthOff /\ BookInit /\ VerifyOff /\ ScanInit /\ CacheInit /\ ConsolidateOff /\ ParseOff /\ FilterOff /\ ExtractOff /\ ApiInit /\ WizardOff
SpecApi == InitApi /\ [][ApiNext]_vars

\* The first two steps of the booking automation on every page.
InitWizard == AuthOff /\ BookInit /\ VerifyOff /\ ScanInit /\ CacheInit /\ ConsolidateOff /\ ParseOff /\ FilterOff /\ ExtractOff /\ ApiInit /\ WizardInit
SpecWizard == InitWizard /\ [][WizardNext]_vars

\* The whole extension.
Init ==
    /\ callers = Callers /\ creds = {1} /\ AuthInit /\ BookInit /\ VerifyInit /\ ScanInit /\ CacheInit
    /\ ConsolidateInit /\ ParseInit /\ FilterInit /\ ExtractInit /\ ApiInit
    /\ WizardInit
Next ==
    \/ AuthNext \/ BookNext \/ VerifyNext \/ ScanNext \/ CacheNext
    \/ ConsolidateNext \/ ParseNext \/ FilterNext \/ ExtractNext \/ ApiNext
    \/ WizardNext
Spec == Init /\ [][Next]_vars

(***************************************************************************)
(* Claims                                                                  *)
(***************************************************************************)
\* C1: with one caller, a getAuthTokens call that read a stored pair and whose
\* probe answered 302 has run performLogin exactly once when it returns; when
\* that login succeeded the call returns the login's pair, which is not the
\* stale pair, and LocalStorage holds that pair.
C1_StaleTokenOneRelogin ==
    \A p \in callers :
        (apc[p] = "returned" /\ aStale[p] # NullTokens /\ aProbe[p] = "302") =>
            /\ aLogins[p] = 1
            /\ aLoginPair[p] # NullTokens =>
                  /\ aRet[p] = aLoginPair[p]
                  /\ aRet[p] # aStale[p]
                  /\ AuthTokens(lsToken, lsSession) = aLoginPair[p]

\* A call that found a stored pair, was answered 302, logged in and returned.
C1_Witness ==
    \E p \in callers :
        /\ apc[p] = "returned"
        /\ aStale[p] # NullTokens
        /\ aProbe[p] = "302"
        /\ aLoginPair[p] # NullTokens

\* C2: no getStoredTokens read yields a pair whose authenticityToken and
\* sessionId come from different logins.
C2_StoredPairReadWhole ==
    \A p \in callers :
        aStale[p] # NullTokens =>
            LoginOf(aStale[p].authenticityToken) = LoginOf(aStale[p].sessionId)

\* C3: at most one bookCourtAutomatically run is in flight at any moment.
C3_OneAutomationAtATime ==
    Cardinality({r \in Requests : bpc[r] \in RunPcs}) <= 1

\* The last wizard step of request r failed.
LastStepFailed(r) == steps[r] # <<>> /\ ~steps[r][Len(steps[r])].ok

\* C4: the steps of a run are fillStep1, selectCourtInStep2, confirmStep3,
\* verifyStep4 in this order, each started only after the one before returned
\* true; after a failed step no step is started and the run returns false; the
\* run returns true only after verifyStep4 returned true.
C4_StepsInOrder ==
    \A r \in Requests :
        /\ Len(steps[r]) <= Len(StepOrder)
        /\ \A i \in DOMAIN steps[r] :
              /\ steps[r][i].step = StepOrder[i]
              /\ i < Len(steps[r]) => steps[r][i].ok
        /\ \A k \in DOMAIN StepOrder :
              bpc[r] = StepOrder[k] =>
                  /\ Len(steps[r]) = k - 1
                  /\ \A i \in DOMAIN steps[r] : steps[r][i].ok
        /\ bResult[r] = "true" =>
              /\ Len(steps[r]) = Len(StepOrder)
              /\ \A i \in DOMAIN steps[r] : steps[r][i].ok
        /\ LastStepFailed(r) =>
              /\ bpc[r] \in {"catch", "failSleep", "finally", "handlerCatch",
                            "handlerFinally", "done"}
              /\ bResult[r] # "true"
              /\ bpc[r] \in {"finally", "handlerFinally", "done"} => bResult[r] = "false"

\* One run went through the four steps and returned true, another ended at a
\* failed step.
C4_Witness ==
    /\ \E r \in Requests : bResult[r] = "true"
    /\ \E r \in Requests : bResult[r] = "false" /\ LastStepFailed(r)

\* A success alert, or a known success phrase in the text of the step.
PositiveMarker(page) == page.hasAlertSuccess \/ Includes(page.text, "success")

\* A danger or warning alert, or a known failure phrase in the text of the step.
NegativeMarker(page) ==
    page.hasAlertDanger \/ page.hasAlertWarning \/ Includes(page.text, "error")

\* C5: on the confirmation step, verifyStep4 returns true if and only if a
\* positive marker is present and no negative marker is.
C5_SuccessIffMarkers ==
    (vResult # "none" /\ vPage.step4Visible) =>
        ((vResult = "true") <=> (PositiveMarker(vPage) /\ ~NegativeMarker(vPage)))

\* C6: a run that has ended has closed the browser it launched.
C6_LaunchedBrowserClosed ==
    \A r \in Requests :
        (bpc[r] \in {"handlerFinally", "done"} /\ launched[r]) => closed[r]

\* The number of the batch the slot of index i belongs to.
BatchOf(i) == (i - 1) \div BatchSize

\* C7: within one scan, when a probe of a batch has been issued, every probe
\* of every earlier batch has answered and its answer has been merged into the
\* result list.
C7_BatchesOneAfterAnother ==
    \A s \in Scans : \A i \in issued[s] : \A j \in 1..NSlots :
        BatchOf(j) < BatchOf(i) => j \in merged[s] /\ j \notin inflight[s]
\* A scan has issued a probe of its second batch.
C7_Witness == \E s \in Scans : \E i \in issued[s] : BatchOf(i) >= 1

\* C8: a scan issues no searchCourts request once its isCancelled is set.
C8_NoProbeAfterCancel == \A s \in Scans : ~probedAfterCancel[s]

\* C9: a scan calls neither setResults nor setIsLoading once its isCancelled
\* is set.
C9_NoWriteAfterCancel == \A s \in Scans : ~wroteAfterCancel[s]

C11_ValidPairReturned ==
    \A p \in callers :
        (apc[p] = "returned" /\ aStale[p] # NullTokens /\ aProbe[p] # "302") =>
            /\ aRet[p] = aStale[p]
            /\ aLogins[p] = 0
            /\ AuthTokens(lsToken, lsSession) = aStale[p]

\* The awaits of getAuthTokens up to the end of performLogin.
AcquiringPcs == {"getStoredToken", "getStoredSession", "loginPage", "loginPost",
                 "loginFresh"}

\* C12: with one caller, refreshAuthTokens has removed both storage items
\* when it goes on to acquire, so it finds no stored pair, probes nothing and
\* runs performLogin; a pair it returns is that login's and is not the pair
\* that was stored when it was called.
C12_RefreshClearsFirst ==
    \A p \in callers :
        aKind[p] = "refresh" =>
            /\ apc[p] \in AcquiringPcs => lsToken = NoItem /\ lsSession = NoItem
            /\ apc[p] = "returned" =>
                  /\ aStale[p] = NullTokens
                  /\ aProbe[p] = "none"
                  /\ aLogins[p] = 1
                  /\ aRet[p] = aLoginPair[p]
                  /\ aRet[p] # NullTokens => aRet[p] # aPrev[p]
\* A refresh called with a pair in the storage has returned a pair.
C12_Witness ==
    \E p \in callers :
        /\ aKind[p] = "refresh"
        /\ apc[p] = "returned"
        /\ aPrev[p] # NullTokens
        /\ aRet[p] # NullTokens

\* C13: two calls whose logins failed for different reasons (no anti-forgery
\* token, no session cookie, network failure) return different values, so
\* that the caller can tell the reasons apart; and a call runs performLogin
\* at most once.
C13_FailuresDistinct ==
    /\ \A p \in callers : aLogins[p] <= 1
    /\ \A p, q \in callers :
          (/\ apc[p] = "returned" /\ apc[q] = "returned"
           /\ aFail[p] # "none" /\ aFail[q] # "none"
           /\ aFail[p] # aFail[q]) => aRet[p] # aRet[q]

\* C14: when a batch has been merged, the entry of every candidate of the
\* batch holds the answer of its own probe, null for a failed probe, and none
\* is left loading: a failed probe does not keep the others from being merged.
C14_FailedProbeOnlyItsEntry ==
    spc[1] \in {"batchDelay", "suggestedToast"} =>
        \A i \in BatchIndices(1) :
            /\ i \in merged[1]
            /\ i \in DOMAIN batchResults[1]
            /\ results[i].time = slots[1][i]
            /\ results[i].availability = batchResults[1][i]
            /\ ~results[i].isLoading
\* A batch was merged in which one probe failed for want of tokens and
\* another found courts.
C14_Witness ==
    /\ spc[1] = "batchDelay"
    /\ authFailed[1]
    /\ \E i, j \in BatchIndices(1) :
          /\ results[i].availability = NullAvailability
          /\ results[j].availability.status = "available"

\* C15: a scan to which getAuthTokens returned null does not end with
\* "Courts loaded".
C15_AuthFailureNotLoaded ==
    \A s \in Scans : authFailed[s] => scanOutcome[s] # "loaded"

\* The list of scan s by candidate index: the answer of its probe for a merged
\* index, a loading entry for the others.
ExpectedResults(s) ==
    [i \in 1..Len(slots[s]) |->
        IF i \in merged[s]
        THEN Entry(s, slots[s][i], answerOf[s][i], FALSE)
        ELSE Entry(s, slots[s][i], NullAvailability, TRUE)]

\* C16: whatever the order in which the probes answered, between the batches
\* the list is the candidate list with, at every merged index, the answer of the
\* probe of that candidate; after the last batch every index is merged, and a
\* scan that ends without suggested slots shows the consolidation of that list.
C16_OrderByCandidateIndex ==
    ~isCancelled[1] =>
        /\ spc[1] \in {"batch", "batchDelay", "suggestedToast"} =>
              results = ExpectedResults(1)
        /\ spc[1] = "suggestedToast" => merged[1] = 1..Len(slots[1])
        /\ (scanOutcome[1] = "loaded" /\ newTimesToFetch[1] = <<>>) =>
              /\ merged[1] = 1..Len(slots[1])
              /\ results = Consolidate(ExpectedResults(1))
\* All batches of a full candidate list are merged, the second probe having
\* answered before the first, with another answer.
C16_Witness ==
    /\ ~isCancelled[1]
    /\ spc[1] = "suggestedToast"
    /\ outOfOrder[1]
    /\ Len(slots[1]) = NSlots
    /\ answerOf[1][1] # answerOf[1][2]

\* An entry starts a run when it is the first, is not no-courts, or follows an
\* entry that is not no-courts: every entry that is not no-courts is a run of
\* its own, a no-courts entry starts a run exactly when no no-courts entry
\* precedes it directly.
IsRunStart(rs, i) == i = 1 \/ ~IsNoCourts(rs[i]) \/ ~IsNoCourts(rs[i - 1])
RunStarts(rs) == {i \in 1..Len(rs) : IsRunStart(rs, i)}
NthRunStart(rs, k) ==
    CHOOSE i \in RunStarts(rs) : Cardinality({j \in RunStarts(rs) : j <= i}) = k
\* The last entry of the maximal run of no-courts entries that starts at i.
LastOfRun(rs, i) ==
    IF IsNoCourts(rs[i])
    THEN SetMax({j \in i..Len(rs) : \A m \in i..j : IsNoCourts(rs[m])})
    ELSE i
ExpectedRanges(rs) ==
    [k \in 1..Cardinality(RunStarts(rs)) |->
        LET i == NthRunStart(rs, k)
            last == LastOfRun(rs, i)
        IN IF last > i
           THEN [rs[i] EXCEPT !.isRangeStart = TRUE, !.rangeEnd = rs[last].time]
           ELSE rs[i]]
NoneLoading(rs) == \A i \in DOMAIN rs : ~rs[i].isLoading

\* C17: when no entry is loading, the consolidation replaces every maximal run
\* of two or more consecutive no-courts entries by the run's first entry with
\* isRangeStart = true and rangeEnd = the time of the run's last entry, and
\* keeps every lone no-courts entry and every other entry unchanged, all in
\* their original order.
C17_RunsBecomeRanges ==
    (cDone /\ NoneLoading(cIn)) => cOut = ExpectedRanges(cIn)
\* [A: available, B: no, C: no, D: no, E: available] became
\* [A, B with rangeEnd = D's time, E].
C17_Witness ==
    /\ cDone
    /\ Len(cIn) = 5
    /\ NoneLoading(cIn)
    /\ [i \in 1..5 |-> cIn[i].availability.status]
         = <<"available", "no-courts", "no-courts", "no-courts", "available">>
    /\ cOut = <<cIn[1],
                [cIn[2] EXCEPT !.isRangeStart = TRUE, !.rangeEnd = cIn[4].time],
                cIn[5]>>

\* The court numbers of a list of slots.
SlotCourts(courtSlots) == {courtSlots[i].courtNumber : i \in DOMAIN courtSlots}
StrictlyAscending(numbers) ==
    \A i \in 1..(Len(numbers) - 1) : numbers[i] < numbers[i + 1]

\* C18: every result of parseCourtAvailability with status available has a
\* non-empty slots list and a courts list that is strictly ascending and holds
\* exactly the court numbers of the slots; every result with status no-courts
\* has empty courts and slots; html that is not classified no-courts and has
\* no court row is returned as no-courts.
C18_ResultWellFormed ==
    pDone =>
        /\ pOut.status \in {"available", "no-courts"}
        /\ pOut.status = "available" =>
              /\ pOut.slots # <<>>
              /\ StrictlyAscending(pOut.courts)
              /\ Range(pOut.courts) = SlotCourts(pOut.slots)
        /\ pOut.status = "no-courts" => pOut.courts = <<>> /\ pOut.slots = <<>>
        /\ (/\ ~IsNoCourtsAvailable(ExtractHtmlFromResponse(pIn))
            /\ ExtractHtmlFromResponse(pIn).rows = <<>>)
              => pOut.status = "no-courts"
\* Rows for courts 2, 1, 2 were parsed into three slots and courts [1, 2].
C18_Witness ==
    /\ pDone
    /\ pIn.injected
    /\ pIn.html.rows = <<2, 1, 2>>
    /\ pOut.status = "available"
    /\ Len(pOut.slots) = 3
    /\ pOut.courts = <<1, 2>>

\* C19: a response without the injection pattern is not returned as a
\* no-courts result.
C19_UnparseableNotNoCourts ==
    (pDone /\ ~pIn.injected) => pOut.status # "no-courts"

\* C20: a call of fetchTimeSlots that starts after a 2xx answer for its unit
\* and the weekday of its date was read (for that date or another one of the
\* same weekday, no clear of the cache in between) sends no request and
\* returns the list of the last such answer; and as long as the cache is not
\* cleared, the entry of every date of that weekday holds that list.
C20_SameWeekdayServedFromCache ==
    /\ \A p \in Fetchers :
          fSeen[p] # NoList =>
              fpc[p] = "returned" /\ ~fRequested[p] /\ fRet[p] = fSeen[p]
    /\ \A u \in Units : \A d \in Dates :
          lastAnswer[UnitDay(u, d)] # NoList =>
              /\ CacheHas(timeSlotsCache, CacheKey(u, d))
              /\ JSONParse(timeSlotsCache[CacheKey(u, d)]) = lastAnswer[UnitDay(u, d)]
\* One call got a non-empty list from the portal for date 0 and the other one
\* for date 7 returned the same list without a request.
C20_Witness ==
    \E p, q \in Fetchers :
        /\ fDate[p] = 0 /\ fDate[q] = 7 /\ fUnit[p] = fUnit[q]
        /\ fpc[p] = "returned" /\ fRequested[p] /\ fRet[p] # <<>>
        /\ fpc[q] = "returned" /\ ~fRequested[q] /\ fRet[q] = fRet[p]
        /\ fSeen[q] = fRet[p]
        /\ clears = 0

\* `out` is `in` with some elements left out, the others in their order.
KeepsOrder(out, in) ==
    \E f \in [1..Len(out) -> 1..Len(in)] :
        /\ \A i \in 1..Len(out) : in[f[i]] = out[i]
        /\ \A i \in 1..(Len(out) - 1) : f[i] < f[i + 1]
\* Of the input `in`, every full hour is in `out` and a half hour is in `out`
\* exactly when the full hour after it is not in `in`.
HalfHoursFiltered(out, in) ==
    \A t \in in :
        /\ t % 60 = 0 => t \in out
        /\ t % 60 = 30 => (t \in out <=> (t + 30) \notin in)
\* The values generateTimeSlotsForDate hands to its half-hour filter: all of
\* them, or those of a later hour than the current one when the date is today.
NotPast == {t \in Range(tIn) : ~tNow.isToday \/ t \div 60 > tNow.currentHour}
SlotTimes == [i \in 1..Len(tSlots) |-> tSlots[i].time]

\* C21: the half-hour filter of parseTimeSlots and the one of
\* generateTimeSlotsForDate keep every full hour of their input, keep a half
\* hour HH:30 exactly when (HH+1):00 is not in their input, and keep the order
\* of the input.
C21_HalfHourFilter ==
    /\ "parseTimeSlots" \in tDone =>
          /\ KeepsOrder(tParsed, tIn)
          /\ HalfHoursFiltered(Range(tParsed), Range(tIn))
    /\ "generateTimeSlotsForDate" \in tDone =>
          /\ KeepsOrder(SlotTimes, tIn)
          /\ Range(SlotTimes) \subseteq NotPast
          /\ HalfHoursFiltered(Range(SlotTimes), NotPast)
\* [08:00, 08:30, 09:00] became [08:00, 09:00] in both functions.
C21_Witness ==
    /\ tDone = {"parseTimeSlots", "generateTimeSlotsForDate"}
    /\ ~tNow.isToday
    /\ tIn = <<Time(8, 0), Time(8, 30), Time(9, 0)>>
    /\ tParsed = <<Time(8, 0), Time(9, 0)>>
    /\ SlotTimes = <<Time(8, 0), Time(9, 0)>>

\* The marker strings of the html that isNoCourtsAvailable was given.
GivenMarkers == ExtractHtmlFromResponse(pIn).markers
NoSlotMarkers == {"otherTimes", "alert-danger", "tryAnotherTime"}

\* C22: isNoCourtsAvailable answers true or false for every html; with the
\* success marker in the html it answers false whichever other markers are
\* there, and without it it answers true exactly when one of the three
\* no-slot markers is there.
C22_ClassificationTotal ==
    pDone =>
        /\ pNoCourts \in BOOLEAN
        /\ "alert-success" \in GivenMarkers => ~pNoCourts
        /\ "alert-success" \notin GivenMarkers =>
              (pNoCourts <=> GivenMarkers \cap NoSlotMarkers # {})
\* An html with the success marker and all three no-slot markers was
\* classified as not no-courts.
C22_Witness ==
    /\ pDone
    /\ pIn.injected
    /\ pIn.html.markers = MarkerStrings
    /\ ~pNoCourts

\* C23: for every html fragment, escaping it, injecting it and extracting it
\* again gives the fragment back unchanged.
C23_ExtractInvertsEscape == eDone => eOut = eIn

\* The suggested times scan s has probed, in the order of the calls: its calls
\* of searchCourts after those for its candidates.
SuggestedProbed(s) ==
    [i \in 1..(Len(probed[s]) - Cardinality(issued[s])) |->
        probed[s][Cardinality(issued[s]) + i].startHour]
\* The suggested times the answers for the candidates of scan s carried.
SuggestedByAnswers(s) ==
    UNION {Range(answerOf[s][i].suggestedTimes) : i \in DOMAIN answerOf[s]}

\* C24: a scan has at most one probe of a suggested time in flight, and none
\* while a probe of a candidate is in flight; it probes a suggested time only
\* after the answers of all its candidates were merged; the suggested times it
\* probes were suggested by an answer, are no candidates and are probed once
\* each; when the scan ends, every suggested time that is no candidate was
\* probed.
C24_SuggestedAfterBatches ==
    /\ Cardinality(sugInflight[1]) <= 1
    /\ sugInflight[1] # {} => inflight[1] = {}
    /\ ~isCancelled[1] =>
          LET sp == SuggestedProbed(1)
          IN /\ sp # <<>> => merged[1] = 1..Len(slots[1])
             /\ \A i \in DOMAIN sp :
                   /\ sp[i] \notin Range(slots[1])
                   /\ sp[i] \in SuggestedByAnswers(1)
                   /\ \A j \in DOMAIN sp : sp[j] = sp[i] => j = i
             /\ scanOutcome[1] = "loaded" =>
                   Range(sp) = SuggestedByAnswers(1) \ Range(slots[1])
\* A scan of two candidates, one of them 09:00, ended after probing the
\* suggested 08:30 and not the suggested 09:00.
C24_Witness ==
    /\ ~isCancelled[1]
    /\ scanOutcome[1] = "loaded"
    /\ Len(slots[1]) = 2
    /\ Time(9, 0) \in SuggestedByAnswers(1)
    /\ SuggestedProbed(1) = <<Time(8, 30)>>
    /\ sugInflight[1] = {}

\* C25: when every caller has completed a getAuthTokens call in which it
\* logged in successfully, LocalStorage holds the pair of one of these logins
\* and every caller has returned the pair of its own login.
C25_LastWriterWins ==
    (\A p \in callers : /\ apc[p] = "returned"
                        /\ aKind[p] = "get"
                        /\ aLogins[p] = 1
                        /\ aLoginPair[p] # NullTokens) =>
        /\ \E p \in callers : AuthTokens(lsToken, lsSession) = aLoginPair[p]
        /\ \A p \in callers : aRet[p] = aLoginPair[p]

\* C26: every _session_id an operation sends is the sessionId of the tokens
\* that the getAuthTokens call of that operation returned; an operation to
\* which getAuthTokens returned null sends nothing; a fetchTimeSlots call that
\* hits the cache calls getAuthTokens not at all and sends nothing.
C26_RequestsCarryOwnSession ==
    \A o \in Operations :
        /\ \A i \in DOMAIN oSent[o] :
              /\ oAuthCalls[o] = 1
              /\ oTokens[o] # NullTokens
              /\ oSent[o][i] = oTokens[o].sessionId
        /\ oTokens[o] = NullTokens => oSent[o] = <<>>
        /\ oHit[o] => oAuthCalls[o] = 0 /\ oSent[o] = <<>> /\ opc[o] = "returned"
\* A cancelRent that sent the session of its tokens has returned beside a
\* fetchTimeSlots that was served from the cache.
C26_Witness ==
    \E o, h \in Operations :
        /\ oKind[o] = "cancelRent"
        /\ opc[o] = "returned"
        /\ oTokens[o] # NullTokens
        /\ oSent[o] = <<oTokens[o].sessionId>>
        /\ oKind[h] = "fetchTimeSlots"
        /\ oHit[h]
        /\ oAuthCalls[h] = 0

\* The probes of scan s that have not answered yet.
InFlight(s) == Cardinality(inflight[s]) + Cardinality(sugInflight[s])
\* How often scan s has called searchCourts with these parameters.
TimesProbed(s, params) == Cardinality({i \in DOMAIN probed[s] : probed[s][i] = params})

\* C27: a scan never has more probes in flight than the batch size; it calls
\* searchCourts for a candidate at most once, always with the date of the scan
\* and duration 1, and when it ends it has called it exactly once for every
\* candidate.
C27_BoundedFanOut ==
    /\ \A s \in Scans : InFlight(s) <= BatchSize
    /\ \A i \in DOMAIN probed[1] :
          probed[1][i].duration = 1 /\ probed[1][i].date = 1
    /\ ~isCancelled[1] =>
          \A i \in DOMAIN slots[1] :
              /\ TimesProbed(1, SearchParams(1, slots[1][i])) <= 1
              /\ (i \in issued[1]) <=> TimesProbed(1, SearchParams(1, slots[1][i])) = 1
              /\ scanOutcome[1] = "loaded" =>
                    TimesProbed(1, SearchParams(1, slots[1][i])) = 1
\* A scan of three candidates has ended after two batches and a suggested
\* time, with one call for each candidate.
C27_Witness ==
    /\ Len(slots[1]) = NSlots
    /\ scanOutcome[1] = "loaded"
    /\ Len(probed[1]) > NSlots
    /\ \A i \in DOMAIN slots[1] : TimesProbed(1, SearchParams(1, slots[1][i])) = 1


\* The positions of the links whose court_id is exactly the target court.
LinksOfTarget == {i \in DOMAIN wSeen2.links : wSeen2.links[i] = wParams.courtId}
\* selectCourtInStep2 looked at the list of links (it did not skip).
LookedAtLinks == wSeen2.ran /\ ~wSeen2.step3

\* C28: in the court-selection step, when a link for the target court is
\* offered the clicked link is one for exactly that court; when none is
\* offered the first link is clicked; with no links the step fails.
C28_TargetCourtClicked ==
    LookedAtLinks =>
        /\ LinksOfTarget # {} => wClicked \in LinksOfTarget
        /\ (LinksOfTarget = {} /\ wSeen2.links # <<>>) => wClicked = 1
        /\ wSeen2.links = <<>> => (wClicked = 0 /\ wpc = "failed")
\* The actions of fillStep1 on the search form.
FormActions == {"fill", "hour", "duration", "submit"}

\* C29: when fillStep1 finds #step-3 present and visible, the search form is
\* not filled or submitted, the step succeeds and the automation goes on to
\* selectCourtInStep2.
C29_SkipsSearchWhenPastIt ==
    (wSeen1.ran /\ wSeen1.step3) =>
        /\ Range(wDid) \cap FormActions = {}
        /\ wHour = NoHour
        /\ wpc = "selectCourtInStep2" \/ wSeen2.ran
C29_Witness ==
    /\ wSeen1.ran /\ wSeen1.step3
    /\ wSeen1.failure = "form"
    /\ wSeen2.ran
    /\ wpc = "confirmStep3"

\* The minutes after midnight of "HH:MM".
MinutesOf(v) == (v[1] * 10 + v[2]) * 60 + v[3] * 10 + v[4]
\* The hours the select offered to fillStep1.
OfferedHours == {v \in Range(wSeen1.options) : v # EmptyString}
\* fillStep1 got as far as choosing the hour.
ChoseHour ==
    /\ wSeen1.ran /\ ~wSeen1.step3
    /\ wSeen1.failure # "form"
    /\ Len(wSeen1.options) > 1 /\ wSeen1.enabled

\* C30: in the search step the hour selected is the requested hour whenever
\* it is offered, otherwise the earliest offered hour; when no hour is
\* offered the step fails and the form is not submitted.
C30_HourSelected ==
    /\ (ChoseHour /\ OfferedHours # {}) =>
          /\ wHour \in OfferedHours
          /\ wParams.startHour \in OfferedHours => wHour = wParams.startHour
          /\ wParams.startHour \notin OfferedHours =>
                \A v \in OfferedHours : MinutesOf(wHour) <= MinutesOf(v)
    /\ (wSeen1.ran /\ ~wSeen1.step3 /\ OfferedHours = {}) =>
          /\ wHour = NoHour
          /\ wpc = "failed"
          /\ "submit" \notin Range(wDid)
\* The requested hour is not offered, a later hour comes first in the select
\* and the earliest one is selected and the form submitted.
C30_Witness ==
    /\ ChoseHour
    /\ wParams.startHour = HourString(9, 0)
    /\ wSeen1.options = <<EmptyString, HourString(10, 0), HourString(8, 0)>>
    /\ wHour = HourString(8, 0)
    /\ "submit" \in Range(wDid)

\* The start time t is before the time of day of `now`.
InThePast(t) == t < Time(tNow.currentHour, tNow.currentMinute)
\* The half-hour filter leaves t alone on any list that holds it.
NeverHalfHourFiltered(t) == t % 60 # 30
\* The start times of the list that are kept unless they are in the past.
KeptUnlessPast == {t \in Range(tIn) : NeverHalfHourFiltered(t) \/ (t + 30) \notin Range(tIn)}

\* C31: generateTimeSlotsForDate for today excludes a start time exactly when
\* it is in the past, so that every start time still in the future, a half
\* hour later in the current hour included, is kept; for another date no
\* start time is excluded for being in the past.
C31_PastExcludedExactly ==
    "generateTimeSlotsForDate" \in tDone =>
        \A t \in KeptUnlessPast :
            t \in Range(SlotTimes) <=> ~(tNow.isToday /\ InThePast(t))

\* The call of caller p has returned after a performLogin that returned null.
LoginFailedIn(p) ==
    /\ apc[p] = "returned"
    /\ aLogins[p] > 0
    /\ aLoginPair[p] = NullTokens
\* The call of caller p is past getStoredTokens.
PastGetStoredTokens(p) ==
    apc[p] \notin {"idle", "refreshClearToken", "refreshClearSession",
                   "getStoredToken", "getStoredSession"}
\* The call of caller p is past the clearStoredTokens of a stale pair.
PastStaleClear(p) ==
    PastGetStoredTokens(p) /\ apc[p] \notin {"needsLogin", "staleClearToken",
                                             "staleClearSession"}

CredentialsOf(pair) == loginCred[LoginOf(pair.sessionId)]

\* C33: the pair getAuthTokens(c) returns comes from a login made with the
\* credentials c, never from a login made with other credentials, for any
\* sequence of getAuthTokens / refreshAuthTokens calls with varying credentials.
C33_PairBelongsToCredentials ==
    \A p \in callers :
        (apc[p] = "returned" /\ aRet[p] # NullTokens) =>
            CredentialsOf(aRet[p]) = aCred[p]

\* selectCourtInStep2 clicked a booking-action link in the run of request r.
ClickedCourtLink(r) ==
    \E i \in DOMAIN steps[r] :
        steps[r][i].step = "selectCourtInStep2" /\ steps[r][i].outcome = "clicked"

\* C34: whenever bookCourtAutomatically returns true, selectCourtInStep2
\* clicked a booking-action link during that same run.
C34_SuccessAfterCourtSelected ==
    \A r \in Requests : bResult[r] = "true" => ClickedCourtLink(r)

\* The call of caller p returns in this step.
Returns(p) == fpc[p] # "returned" /\ fpc'[p] = "returned"
\* The key of the call of caller p that returns in this step.
ReturnKey(p) == CacheKey(fUnit'[p], fDate'[p])

\* C35: fetchTimeSlots writes the cache exactly when the hours endpoint
\* answered 2xx, storing the parsed list also when it is empty; a call that
\* finds an entry returns its list, empty or not, without a request; on an
\* authentication failure, a non-2xx status or a transport error it returns
\* [] and leaves the cache as it is.
C35_CacheWrittenOn2xx ==
    [][/\ \A p \in Fetchers :
             Returns(p) =>
                 /\ fOutcome'[p] = "2xx" =>
                       timeSlotsCache' =
                           [timeSlotsCache EXCEPT ![ReturnKey(p)] =
                                                      JSONStringify(fRet'[p])]
                 /\ fOutcome'[p] \in {"noTokens", "failed"} =>
                       fRet'[p] = <<>> /\ timeSlotsCache' = timeSlotsCache
                 /\ fOutcome'[p] = "hit" =>
                       /\ fRet'[p] = JSONParse(timeSlotsCache[ReturnKey(p)])
                       /\ ~fRequested'[p]
                       /\ timeSlotsCache' = timeSlotsCache
       /\ timeSlotsCache' # timeSlotsCache =>
             \/ clears' # clears
             \/ \E p \in Fetchers : Returns(p) /\ fOutcome'[p] = "2xx"]_vars
\* One call read a 2xx answer without hours and stored the empty list;
\* another call for that key returned the empty list from the cache, with no
\* request.
C35_Witness ==
    \E p, q \in Fetchers :
        /\ fpc[p] = "returned" /\ fOutcome[p] = "2xx" /\ fRet[p] = <<>>
        /\ fpc[q] = "returned" /\ fOutcome[q] = "hit" /\ fRet[q] = <<>>
        /\ ~fRequested[q]
        /\ CacheKey(fUnit[p], fDate[p]) = CacheKey(fUnit[q], fDate[q])
        /\ timeSlotsCache[CacheKey(fUnit[p], fDate[p])] = JSONStringify(<<>>)

\* The candidate times generateTimeSlotsForDate makes of a list.
CandidatesOf(date, availableTimeSlots, now) ==
    TimesOf(GenerateTimeSlotsForDate(date, availableTimeSlots, now))
\* A Sunday, a Friday and a Saturday.
TableDates == {0, 5, 6}
\* Scan s has its candidate list.
HasCandidates(s) == spc[s] \notin {"idle", "loadingToast", "fetchTimeSlots"}

\* C36: generateTimeSlotsForDate uses the opening hours of getValidTimeSlots
\* only when no list is supplied; whatever list the scan that awaits
\* fetchTimeSlots supplies, the empty one included, the candidates are times of
\* that list only, and a scan whose candidate list is empty probes nothing and
\* completes with "Courts loaded".
C36_EmptyListNoFallback ==
    \A s \in Scans :
        /\ spc[s] = "fetchTimeSlots" =>
              \A now \in Nows :
                  /\ CandidatesOf(s, <<>>, now) = <<>>
                  /\ \A list \in HourLists :
                        Range(CandidatesOf(s, list, now)) \subseteq Range(list)
                  /\ \A date \in TableDates :
                        ~now.isToday =>
                            CandidatesOf(date, Undefined, now) = GetValidTimeSlots(date)
        /\ (HasCandidates(s) /\ slots[s] = <<>> /\ ~isCancelled[s]) =>
              /\ results = <<>>
              /\ probed[s] = <<>> /\ issued[s] = {}
              /\ inflight[s] = {} /\ sugInflight[s] = {}
              /\ spc[s] = "returned" => (scanOutcome[s] = "loaded" /\ ~isLoading)
\* fetchTimeSlots returned [] for want of tokens and the scan ended with
\* "Courts loaded", an empty list and no probe.
C36_Witness ==
    /\ spc[1] = "returned" /\ ~isCancelled[1]
    /\ authFailed[1]
    /\ slots[1] = <<>>
    /\ probed[1] = <<>>
    /\ results = <<>>
    /\ scanOutcome[1] = "loaded"

\* The suggested times of scan s are in the list.
SplicedIn(s) ==
    /\ ~isCancelled[s]
    /\ newTimesToFetch[s] # <<>>
    /\ spc[s] \in {"suggestedProbe", "suggestedDelay", "returned"}
\* The list is in ascending order of time of day, no time twice.
AscendingByTime(rs) ==
    \A i, j \in DOMAIN rs : i < j => rs[i].time < rs[j].time
\* The answer of the probe of a suggested time arrives in this step.
SuggestedAnswered(s) == spc[s] = "suggestedProbe" /\ spc'[s] = "suggestedDelay"
SuggestedTime(s) == newTimesToFetch[s][sugIndex[s]]

\* C37: once the suggested times are spliced in, the list is in ascending
\* order of time of day and holds no start time twice, and the answer of the
\* probe of a suggested time is written to the entry of that time only.
C37_SplicedSortedUnique ==
    /\ [](\A s \in Scans :
             SplicedIn(s) =>
                 /\ AscendingByTime(results)
                 /\ spc[s] # "returned" =>
                       \A t \in Range(newTimesToFetch[s]) \cup Range(slots[s]) :
                           \E i \in DOMAIN results : results[i].time = t)
    /\ [][\A s \in Scans :
             (SuggestedAnswered(s) /\ ~isCancelled[s]) =>
                 /\ Len(results') = Len(results)
                 /\ \A i \in DOMAIN results :
                       IF results[i].time = SuggestedTime(s)
                       THEN /\ ~results'[i].isLoading
                            /\ results'[i].time = results[i].time
                       ELSE results'[i] = results[i]]_vars
\* 08:00 was the one candidate, 09:00 and 08:30 were suggested and spliced in,
\* and the probe of 09:00 has answered: 08:00, 08:30 (loading), 09:00.
C37_Witness ==
    /\ SplicedIn(1)
    /\ slots[1] = <<Time(8, 0)>>
    /\ newTimesToFetch[1] = <<Time(9, 0), Time(8, 30)>>
    /\ spc[1] = "suggestedDelay" /\ sugIndex[1] = 1
    /\ Len(results) = 3
    /\ results[2].time = Time(8, 30) /\ results[2].isLoading
    /\ results[3].time = Time(9, 0) /\ ~results[3].isLoading

\* Two neighbours of the list both have the status no-courts.
AdjacentNoCourts(rs) ==
    \E i \in 1..(Len(rs) - 1) : IsNoCourts(rs[i]) /\ IsNoCourts(rs[i + 1])

\* C38: the consolidation runs only when no entry is loading (the list is
\* returned as it is otherwise), its output has no two adjacent no-courts
\* entries, and run again on its own output it changes nothing.
C38_ConsolidationIdempotent ==
    /\ (cDone /\ ~NoneLoading(cIn)) => cOut = cIn
    /\ (cDone /\ NoneLoading(cIn)) => ~AdjacentNoCourts(cOut)
    /\ cTwice => cAgain = cOut
\* A list with two runs of no-courts entries became three entries, and the
\* second pass returned the same three.
C38_Witness ==
    /\ cTwice
    /\ NoneLoading(cIn)
    /\ [i \in 1..Len(cIn) |-> cIn[i].availability.status]
         = <<"no-courts", "no-courts", "available", "no-courts", "no-courts">>
    /\ Len(cOut) = 3
    /\ cOut[1].isRangeStart /\ cOut[3].isRangeStart
    /\ cAgain = cOut

\* The scan has ended with "Courts loaded", no entry loading and the spinner
\* cleared.
ScanEnded(s) ==
    /\ spc[s] = "returned"
    /\ scanOutcome[s] = "loaded"
    /\ ~isLoading
    /\ NoneLoading(results)
\* The candidates of scan s and the distinct suggested times that are none.
ProbeBound(s) ==
    Len(slots[s]) + Cardinality(SuggestedByAnswers(s) \ Range(slots[s]))

\* C39: a scan that is not cancelled ends, with no entry loading and the
\* spinner cleared, and issues at most as many probes as it has candidates
\* and distinct suggested times that are no candidates.
C39_ScanTerminates ==
    /\ <>(isCancelled[1] \/ ScanEnded(1))
    /\ [](~isCancelled[1] => Len(probed[1]) <= ProbeBound(1))
\* The scan ended after a probe for its one candidate and for each of the two
\* suggested times.
C39_Witness ==
    /\ ~isCancelled[1]
    /\ ScanEnded(1)
    /\ Len(slots[1]) = 1
    /\ Len(probed[1]) = 3
    /\ ProbeBound(1) = 3

\* Request r confirmed at the prompt and its handler has not returned:
\* setIsBooking(true) was called and the finally block has not run.
AttemptInFlight(r) == bpc[r] \in RunPcs \cup {"handlerCatch", "handlerFinally"}

\* The handler of request r returns in this step after an attempt.
AttemptEnds(r) == AttemptInFlight(r) /\ bpc'[r] = "done"

\* C40: every booking attempt that set isBooking runs to the finally block of
\* handleBookCourt, whether the run returned true, returned false or threw, and
\* that block leaves isBooking false; a request made while isBooking is false
\* is taken to the confirmation prompt; a request declined at the prompt has
\* not changed the flag and has started no run.
C40_FlagAlwaysReset ==
    /\ \A r \in Requests : AttemptInFlight(r) ~> (bpc[r] = "done")
    /\ [][\A r \in Requests :
              /\ AttemptEnds(r) => ~isBooking'
              /\ (bpc[r] = "idle" /\ bpc'[r] # "idle" /\ ~isBooking)
                    => bpc'[r] = "confirmAlert"
              /\ (bpc[r] # "declined" /\ bpc'[r] = "declined")
                    => (bpc[r] = "confirmAlert" /\ isBooking' = isBooking)]_vars
    /\ [](\A r \in Requests :
              bpc[r] = "declined" => (steps[r] = <<>> /\ bResult[r] = "none"))

\* One attempt ended after close() threw behind a run that had returned true,
\* the flag is down again and the next request stands at the prompt.
C40_Witness ==
    /\ bpc[1] = "done" /\ bResult[1] = "true" /\ closed[1]
    /\ ~isBooking
    /\ bpc[2] = "confirmAlert"
====
